---- MODULE Spec2Model ----
(***************************************************************************)
(* A model of the Lox interpreters of rust-crafting-interpreters.          *)
(*                                                                         *)
(* The tree-walk evaluator is modelled as a big-step semantics: every      *)
(* handler of the evaluator (evaluate_expression, evaluate_statement,      *)
(* execute_block_statement, LoxCallable::call, the environment and value   *)
(* helpers) is an operator over an evaluation state `st`, and the public   *)
(* entry point `interpret(operations)` is an action of the state machine.  *)
(*                                                                         *)
(* Representation choices:                                                 *)
(*  - a LoxValueHandle of a Nil/Number/Boolean/String is modelled by its   *)
(*    value (these are never mutated in place); a handle of a Function,    *)
(*    NativeFunction, Class or ClassInstance is Ref(id), an index into the *)
(*    object heap `objs`, so that aliasing is visible;                     *)
(*  - a LoxEnvironmentHandle is an index into the environment heap `envs`; *)
(*    outer = 0 stands for None;                                           *)
(*  - f64 numbers are restricted to small integers;                        *)
(*  - a LoxToken is represented by its lexeme.                             *)
(*                                                                         *)
(* The fields trace, cur, mark and ncalls of the evaluation state are      *)
(* history (ghost) fields: they record what the handlers did so that the   *)
(* properties can be stated; no modelled handler reads them.               *)
(***************************************************************************)
EXTENDS Integers, Sequences, FiniteSets, TLC

VARIABLES
    envs,      \* heap of environments; envs[1] is the evaluator's globals
    objs,      \* heap of Function / NativeFunction / Class / ClassInstance values
    out,       \* the lines printed so far
    locals,    \* LoxTreeWalkEvaluator.locals: expression -> depth
    resolver,  \* LoxResolver: scopes, current_class_kind, current_function_kind
    result,    \* what the last interpret() call returned
    last,      \* history: the input of the last call
    trace,     \* history: what the handlers did during the last call
    nops,      \* number of interpret() calls made
    probe,     \* the value under test of the truthiness specification
    parser,    \* the source under test of the parser specification
    vm         \* the bytecode virtual machine of the bytecode specification

vars == <<envs, objs, out, locals, resolver, result, last, trace, nops, probe, parser, vm>>

\* the fields of the tree-walk interpreter
interpreter_vars == <<envs, objs, out, locals, resolver, result, last, trace, nops>>

(***************************************************************************)
(* Bounds.                                                                 *)
(***************************************************************************)
MaxOps == 2
MaxNum == 12

(***************************************************************************)
(* Runtime values (src/values.rs, LoxValue).                               *)
(***************************************************************************)
Nil == [t |-> "Nil"]
Number(n) == [t |-> "Number", n |-> n]
Boolean(b) == [t |-> "Boolean", b |-> b]
String(s) == [t |-> "String", s |-> s]
Ref(id) == [t |-> "Ref", id |-> id]

IsRef(v) == v.t = "Ref"

\* the variant behind a handle
Kind(os, v) == IF IsRef(v) THEN os[v.id].k ELSE v.t

(***************************************************************************)
(* Results: Result<LoxValueHandle>.  A Rust panic (unwrap/expect on None,  *)
(* todo!()) is a third outcome that nothing catches.                       *)
(***************************************************************************)
Ok(v) == [k |-> "ok", v |-> v]
Err(e) == [k |-> "err", e |-> e]
Panic(m) == [k |-> "panic", m |-> m]

InterpreterReturn(v) == [kind |-> "InterpreterReturn", value |-> v]
InterpreterUndefinedVariable(n) == [kind |-> "InterpreterUndefinedVariable", name |-> n]
InterpreterCallableWrongArity(n, m) ==
    [kind |-> "InterpreterCallableWrongArity", expected |-> n, got |-> m]
InterpreterNonCallableValue == [kind |-> "InterpreterNonCallableValue"]
InterpreterCannotGetOrSetField(n) == [kind |-> "InterpreterCannotGetOrSetField", name |-> n]
InterpreterUndefinedClassProperty(n) ==
    [kind |-> "InterpreterUndefinedClassProperty", name |-> n]
InterpreterNotANumber(s) == [kind |-> "InterpreterNotANumber", repr |-> s]
InterpreterUnexpectedOperation(s) == [kind |-> "InterpreterUnexpectedOperation", op |-> s]
InterpreterSuperClassNotAClass == [kind |-> "InterpreterSuperClassNotAClass"]

IsReturn(r) == r.k = "err" /\ r.e.kind = "InterpreterReturn"

\* the Display text of a LoxInterpreterError (src/errors.rs)
message(e) ==
    CASE e.kind = "ParserError" -> "Parse error"
      [] e.kind = "ResolverUnexpectedOperation" ->
            "Resolver error: unexpected operation: resolve_function expected a function"
      [] e.kind = "ResolverRecursiveLocalAssignment" ->
            "Can't read local variable in its own initializer."
      [] e.kind = "ResolverDuplicateVariableDeclaration" ->
            "Already a variable with this name in this scope."
      [] e.kind = "ResolverImpossibleTopLevelReturn" -> "Can't return from top-level code."
      [] e.kind = "ResolverImpossibleInitializerReturn" ->
            "Can't return a value from an initializer."
      [] e.kind = "ResolverImpossibleThisUsage" -> "Can't use 'this' outside of a class."
      [] e.kind = "InterpreterUnexpectedOperation" -> "Unexpected operation: " \o e.op
      [] e.kind = "InterpreterNotANumber" -> "Not a number: " \o e.repr
      [] e.kind = "InterpreterUndefinedVariable" -> "Undefined variable '" \o e.name \o "'."
      [] e.kind = "InterpreterNonCallableValue" -> "Can only call functions and classes."
      [] e.kind = "InterpreterCannotGetOrSetField" -> "Only instances have fields."
      [] e.kind = "InterpreterUndefinedClassProperty" ->
            "Undefined property '" \o e.name \o "'."
      [] e.kind = "InterpreterCallableWrongArity" ->
            "Expected " \o ToString(e.expected) \o " arguments but got "
                \o ToString(e.got) \o "."
      [] e.kind = "InterpreterSuperClassNotAClass" -> "Superclass must be a class."
      [] e.kind = "InterpreterReturn" -> "Return value"

\* an operator result paired with the evaluation state it leaves
R(st, r) == [st |-> st, r |-> r]

(***************************************************************************)
(* AST (src/expressions.rs).                                               *)
(***************************************************************************)
\* LoxLiteral
LNumber(n) == [lit |-> "Number", n |-> n]
LString(s) == [lit |-> "String", s |-> s]
LTrue == [lit |-> "True"]
LFalse == [lit |-> "False"]
LNil == [lit |-> "Nil"]

\* LoxExpression
ENoOp == [e |-> "NoOp"]
Literal(v) == [e |-> "Literal", value |-> v]
Variable(n) == [e |-> "Variable", name |-> n]
Assign(n, x) == [e |-> "Assign", name |-> n, value |-> x]
Binary(l, op, r) == [e |-> "Binary", left |-> l, operator |-> op, right |-> r]
Logical(l, op, r) == [e |-> "Logical", left |-> l, operator |-> op, right |-> r]
Unary(op, r) == [e |-> "Unary", operator |-> op, right |-> r]
Group(x) == [e |-> "Group", expression |-> x]
CallE(c, args) == [e |-> "Call", callee |-> c, arguments |-> args]
Get(o, n) == [e |-> "Get", object |-> o, name |-> n]
Set(o, n, x) == [e |-> "Set", object |-> o, name |-> n, value |-> x]
This == [e |-> "This"]
Super(m) == [e |-> "Super", method |-> m]

\* LoxStatement
SNoOp == [s |-> "NoOp"]
SBlock(ss) == [s |-> "Block", statements |-> ss]
SExpression(x) == [s |-> "Expression", expression |-> x]
SPrint(x) == [s |-> "Print", expression |-> x]
SVariable(n, x) == [s |-> "Variable", name |-> n, initializer |-> x]
SIf(c, t, f) == [s |-> "If", condition |-> c, then_branch |-> t, else_branch |-> f]
SWhile(c, b) == [s |-> "While", condition |-> c, body |-> b]
SFunction(n, ps, b) == [s |-> "Function", name |-> n, parameters |-> ps, body |-> b]
SReturn(x) == [s |-> "Return", value |-> x]
SClass(n, sup, ms) == [s |-> "Class", name |-> n, super_class |-> sup, methods |-> ms]

\* LoxOperation
OpInvalid == [o |-> "Invalid"]
OpStatement(s) == [o |-> "Statement", statement |-> s]
OpExpression(x) == [o |-> "Expression", expression |-> x]

(***************************************************************************)
(* Environments (src/interpreter/environment.rs).                          *)
(***************************************************************************)
EmptyMap == [x \in {} |-> Nil]

LoxEnvironment_new(st, outer) ==
    [st EXCEPT !.envs = Append(@, [values |-> EmptyMap, outer |-> outer])]

\* the handle LoxEnvironment_new(st, _) returns
NewEnvId(st) == Len(st.envs) + 1

define(es, h, name, v) == [es EXCEPT ![h].values = (name :> v) @@ @]

RECURSIVE get_deeply(_, _, _)
get_deeply(es, name, h) ==
    IF name \in DOMAIN es[h].values THEN Ok(es[h].values[name])
    ELSE IF es[h].outer # 0 THEN get_deeply(es, name, es[h].outer)
    ELSE Err(InterpreterUndefinedVariable(name))

get(es, h, name) ==
    IF name \in DOMAIN es[h].values THEN Ok(es[h].values[name])
    ELSE IF es[h].outer # 0 THEN get_deeply(es, name, es[h].outer)
    ELSE Err(InterpreterUndefinedVariable(name))

\* assign returns the updated heap and Result<()>
RECURSIVE assign(_, _, _, _)
\* an assignment that always stores into the current environment
assign_innermost(es, h, name, v) == [envs |-> define(es, h, name, v), r |-> Ok(Nil)]

assign(es, h, name, v) ==
    IF name \in DOMAIN es[h].values
    THEN [envs |-> [es EXCEPT ![h].values = (name :> v) @@ @], r |-> Ok(Nil)]
    ELSE IF es[h].outer # 0 THEN assign(es, es[h].outer, name, v)
    ELSE [envs |-> es, r |-> Err(InterpreterUndefinedVariable(name))]

\* the loop body re-borrows `handle`, not `current`: for every distance >= 1
\* the result is handle.outer; 0 stands for the unwrap() of a None outer
environment_handle_ancestor(es, h, distance) ==
    IF distance = 0 THEN h ELSE es[h].outer

environment_handle_get_at_depth(es, h, name, distance) ==
    LET a == environment_handle_ancestor(es, h, distance)
    IN IF a = 0 THEN Panic("unwrap on None outer") ELSE get(es, a, name)

environment_handle_assign_at_depth(es, h, name, distance, v) ==
    LET a == environment_handle_ancestor(es, h, distance)
    IN define(es, a, name, v)

\* history helper: the environment of the chain from h whose map holds name
\* (0 when none does)
RECURSIVE FoundEnv(_, _, _)
FoundEnv(es, h, name) ==
    IF h = 0 THEN 0
    ELSE IF name \in DOMAIN es[h].values THEN h
    ELSE FoundEnv(es, es[h].outer, name)

\* history helper: the environments reachable from h through outer links
RECURSIVE Chain(_, _)
Chain(es, h) == IF h = 0 THEN {} ELSE {h} \cup Chain(es, es[h].outer)

(***************************************************************************)
(* The evaluation state threaded through the handlers:                     *)
(*   envs, objs  the two heaps;   out  the lines printed so far;           *)
(*   now         the value the clock() native reads;                       *)
(*   trace, cur, mark, ncalls, nbodies   history fields.                   *)
(***************************************************************************)
Log(st, ev) == [st EXCEPT !.trace = Append(@, ev)]

Alloc(st, o) == [st EXCEPT !.objs = Append(@, o)]

\* the handle LoxValue::new returns for an object allocated by Alloc(st, _)
NewObjId(st) == Len(st.objs) + 1

(***************************************************************************)
(* Values (src/values.rs).                                                 *)
(***************************************************************************)
is_truthy(v) ==
    CASE v.t = "Nil" -> FALSE
      [] v.t = "Boolean" -> v.b
      [] OTHER -> TRUE

(***************************************************************************)
(* Values of the bytecode VM (src/bytecode/values.rs, LoxBytecodeValue).   *)
(***************************************************************************)
BNil == [t |-> "Nil"]
BNumber(n) == [t |-> "Number", n |-> n]
BBoolean(b) == [t |-> "Boolean", b |-> b]
BObject(o) == [t |-> "Object", object |-> o]
BString(s) == [o |-> "String", s |-> s]

\* a mutation of is_falsy: the number 0 counts as falsy
is_falsy_zero(v) ==
    CASE v.t = "Nil" -> TRUE
      [] v.t = "Boolean" -> ~v.b
      [] v.t = "Number" -> v.n = 0
      [] OTHER -> FALSE

is_falsy(v) ==
    CASE v.t = "Nil" -> TRUE
      [] v.t = "Boolean" -> ~v.b
      [] OTHER -> FALSE

\* the VM value that corresponds to a tree-walk value: the same literal is a
\* Nil / Boolean / Number in both, and a string is the VM's Object(String)
bytecode_value(v) ==
    CASE v.t = "Nil" -> BNil
      [] v.t = "Boolean" -> BBoolean(v.b)
      [] v.t = "Number" -> BNumber(v.n)
      [] v.t = "String" -> BObject(BString(v.s))

\* numbers are integers here, so |left - right| < f64::EPSILON is left = right
equals(l, r) ==
    CASE l.t = "Nil" /\ r.t = "Nil" -> TRUE
      [] l.t = "Nil" -> FALSE
      [] l.t = "Boolean" /\ r.t = "Boolean" -> l.b = r.b
      [] l.t = "String" /\ r.t = "String" -> l.s = r.s
      [] l.t = "Number" /\ r.t = "Number" -> l.n = r.n
      [] OTHER -> FALSE

\* Option<f64>: [some |-> FALSE] is None
as_number(v) == IF v.t = "Number" THEN [some |-> TRUE, n |-> v.n] ELSE [some |-> FALSE]

function_is_initializer(os, v) ==
    IF Kind(os, v) = "Function" THEN os[v.id].is_initializer ELSE FALSE

\* Option<&LoxValueHandle>: Nil stands for None (a method table holds only
\* function handles).  Only the class's own table is searched.
class_find_method(os, v, name) ==
    IF Kind(os, v) = "Class" /\ name \in DOMAIN os[v.id].methods
    THEN os[v.id].methods[name]
    ELSE Nil

class_name(os, v) == IF Kind(os, v) = "Class" THEN os[v.id].name ELSE "?"

representation(os, v) ==
    CASE v.t = "Nil" -> "nil"
      [] v.t = "Number" -> ToString(v.n)
      [] v.t = "Boolean" -> (IF v.b THEN "true" ELSE "false")
      [] v.t = "String" -> v.s
      [] Kind(os, v) = "Function" -> "<fn " \o os[v.id].declaration.name \o ">"
      [] Kind(os, v) = "NativeFunction" -> "<native fn " \o os[v.id].label \o ">"
      [] Kind(os, v) = "Class" -> os[v.id].name
      [] Kind(os, v) = "ClassInstance" -> class_name(os, os[v.id].class) \o " instance"

(***************************************************************************)
(* Sequencing.  Bind(x, F) is `let x = ...; F(x)`; Try(a, F) is the `?`    *)
(* operator on a handler outcome a: anything but Ok returns early.         *)
(***************************************************************************)
Bind(x, F(_)) == F(x)

Try(a, F(_)) == IF a.r.k # "ok" THEN a ELSE F(a)

\* history helper: log the event ev together with the outcome r, return r
Logged(st, ev, r) == R(Log(st, ev @@ [res |-> r]), r)

\* the Function value class_method_bind_this builds: a copy of the method
\* closed over `environment`
bound_method(f, environment) ==
    [k |-> "Function", arity |-> f.arity, closure |-> environment,
     is_initializer |-> f.is_initializer, declaration |-> f.declaration]

\* a binding that defines `this` in the method's own closure
class_method_bind_this_in_place(st, method, instance) ==
    IF Kind(st.objs, method) = "Function"
    THEN R(Alloc([st EXCEPT !.envs = define(@, st.objs[method.id].closure, "this", instance)],
                 st.objs[method.id]),
           Ok(Ref(NewObjId(st))))
    ELSE R(st, [k |-> "none"])

\* Some(handle of the bound copy) as Ok(..), None as [k |-> "none"]
class_method_bind_this(st, method, instance) ==
    IF Kind(st.objs, method) = "Function"
    THEN R(Alloc([LoxEnvironment_new(st, st.objs[method.id].closure)
                     EXCEPT !.envs = define(@, NewEnvId(st), "this", instance)],
                 bound_method(st.objs[method.id], NewEnvId(st))),
           Ok(Ref(NewObjId(st))))
    ELSE R(st, [k |-> "none"])

\* history helper: does the class of the chain starting at class value c
\* (following super_class) define a method called name
RECURSIVE ChainDefines(_, _, _)
ChainDefines(os, c, name) ==
    IF Kind(os, c) # "Class" THEN FALSE
    ELSE name \in DOMAIN os[c.id].methods \/ ChainDefines(os, os[c.id].super_class, name)

\* history helper: the event logged by a property read on an instance
get_event(st, handle, name) ==
    [ev |-> "get", instance |-> handle.id, name |-> name,
     had_field |-> name \in DOMAIN st.objs[handle.id].fields,
     field |-> IF name \in DOMAIN st.objs[handle.id].fields
               THEN st.objs[handle.id].fields[name] ELSE Nil,
     had_method |-> class_find_method(st.objs, st.objs[handle.id].class, name) # Nil,
     inherited |-> ChainDefines(st.objs, st.objs[handle.id].class, name)]

\* history helper: what a property read that binds a method logs on top of
\* get_event: the unbound method and the two heaps before and after the
\* binding
bind_event(st, method, after) ==
    [method |-> method,
     objs_before |-> st.objs, envs_before |-> st.envs,
     objs_after |-> after.objs, envs_after |-> after.envs]

\* the class's method table is consulted first, the instance's fields second
lox_value_handle_instance_get_field(st, handle, name) ==
    IF Kind(st.objs, handle) = "ClassInstance"
    THEN Bind(class_find_method(st.objs, st.objs[handle.id].class, name), LAMBDA method :
           IF method # Nil
           THEN Bind(class_method_bind_this(st, method, handle), LAMBDA b :
                  Logged(b.st, get_event(st, handle, name) @@ bind_event(st, method, b.st),
                         IF b.r.k = "none" THEN Panic("method value is a function")
                         ELSE b.r))
           ELSE Logged(st, get_event(st, handle, name),
                       IF name \in DOMAIN st.objs[handle.id].fields
                       THEN Ok(st.objs[handle.id].fields[name])
                       ELSE Err(InterpreterUndefinedClassProperty(name))))
    ELSE R(st, Err(InterpreterCannotGetOrSetField(name)))

\* history helper: the event logged by a field write on an instance
set_event(handle, name, value) ==
    [ev |-> "set", instance |-> handle.id, name |-> name, value |-> value]

lox_value_handle_instance_set_field(st, handle, name, value) ==
    IF Kind(st.objs, handle) = "ClassInstance"
    THEN Logged([st EXCEPT !.objs[handle.id].fields = (name :> value) @@ @],
                set_event(handle, name, value), Ok(value))
    ELSE R(st, Err(InterpreterCannotGetOrSetField(name)))

(***************************************************************************)
(* LoxCallable (src/callable.rs).                                          *)
(***************************************************************************)
\* Option<usize>: -1 is None
arity(os, v) ==
    CASE Kind(os, v) = "Function" -> os[v.id].arity
      [] Kind(os, v) = "NativeFunction" -> os[v.id].arity
      [] Kind(os, v) = "Class" ->
            IF class_find_method(os, v, "init") # Nil
            THEN os[class_find_method(os, v, "init").id].arity
            ELSE 0
      [] OTHER -> -1

\* a mutation of call_function_result: a Return raised in the body of a
\* function that is not an initializer is passed on to the caller
call_function_result_leaky(is_initializer, body_r, this_r) ==
    IF body_r.k = "ok" THEN this_r
    ELSE IF IsReturn(body_r) /\ is_initializer THEN this_r
    ELSE body_r

\* the match on the body's outcome; this_r is the outcome of
\* environment_handle_get_at_depth(closure, "this", 0)
call_function_result(is_initializer, body_r, this_r) ==
    IF body_r.k = "ok" THEN this_r
    ELSE IF IsReturn(body_r)
         THEN (IF is_initializer THEN this_r ELSE Ok(body_r.e.value))
         ELSE body_r

\* a mutation of call_fallback: calling a value that is not callable yields nil
call_fallback_nil == Ok(Nil)

\* the `_ =>` arm of call
call_fallback == Err(InterpreterNonCallableValue)

\* builtins.rs: the clock native
build_lox_clock_builtin == [k |-> "NativeFunction", label |-> "clock", arity |-> 0]

clock_execute(st) == Ok(Number(st.now))

\* the parameter loop of the Function arm of call, from index i
RECURSIVE define_parameters(_, _, _, _, _)
define_parameters(es, h, parameters, arguments, i) ==
    IF i > Len(parameters) THEN es
    ELSE define_parameters(define(es, h, parameters[i], arguments[i]),
                           h, parameters, arguments, i + 1)

\* history helper: what every call logs
call_event(st, callee, arguments) ==
    [ev |-> "call", kind |-> Kind(st.objs, callee), callee |-> callee,
     arity |-> arity(st.objs, callee), nargs |-> Len(arguments),
     printed |-> Len(st.out) - st.mark.out,
     calls_in_stmt |-> st.ncalls - st.mark.calls]

\* history helper: what a call of a Function logs on top of call_event
function_event(st, callee, arguments) ==
    call_event(st, callee, arguments) @@
    [is_initializer |-> st.objs[callee.id].is_initializer,
     name |-> st.objs[callee.id].declaration.name,
     this_bound |-> FoundEnv(st.envs, st.objs[callee.id].closure, "this") # 0]

\* history helper: one more call made
Counted(st) == [st EXCEPT !.ncalls = @ + 1]

\* the Function arm of call up to the body: function_env is created around
\* the closure and receives the parameters
function_env_state(st, callee, arguments) ==
    [LoxEnvironment_new(Counted(st), st.objs[callee.id].closure) EXCEPT
        !.envs = define_parameters(@, NewEnvId(st),
                                   st.objs[callee.id].declaration.parameters, arguments, 1),
        !.cur = callee.id,
        !.nbodies = @ + 1]

(***************************************************************************)
(* The tree-walk evaluator (src/interpreter/tree_walk.rs) and call         *)
(* (src/callable.rs).                                                      *)
(***************************************************************************)
evaluate_literal(literal) ==
    CASE literal.lit = "Number" -> Number(literal.n)
      [] literal.lit = "String" -> String(literal.s)
      [] literal.lit = "True" -> Boolean(TRUE)
      [] literal.lit = "False" -> Boolean(FALSE)
      [] literal.lit = "Nil" -> Nil

\* Result<f64>
extract_number(os, v) ==
    IF as_number(v).some THEN Ok(v) ELSE Err(InterpreterNotANumber(representation(os, v)))

\* an arithmetic or comparison arm of Binary: both operands go through
\* extract_number, left first.  Numbers being integers here, a quotient is
\* kept symbolic: a Number holding its two operands.
numeric_operation(os, operator, l, r) ==
    IF extract_number(os, l).k # "ok" THEN extract_number(os, l)
    ELSE IF extract_number(os, r).k # "ok" THEN extract_number(os, r)
    ELSE CASE operator = "-" -> Ok(Number(l.n - r.n))
           [] operator = "*" -> Ok(Number(l.n * r.n))
           [] operator = "/" -> Ok([t |-> "Number", quotient |-> <<l.n, r.n>>])
           [] operator = ">" -> Ok(Boolean(l.n > r.n))
           [] operator = ">=" -> Ok(Boolean(l.n >= r.n))
           [] operator = "<" -> Ok(Boolean(l.n < r.n))
           [] operator = "<=" -> Ok(Boolean(l.n <= r.n))

\* the operator arms of a Binary expression, given both operand values
binary_operation(os, operator, l, r) ==
    CASE operator \in {"-", "*", "/", ">", ">=", "<", "<="} ->
            numeric_operation(os, operator, l, r)
      [] operator = "+" ->
            (CASE l.t = "Number" /\ r.t = "Number" -> Ok(Number(l.n + r.n))
               [] l.t = "String" /\ r.t = "String" -> Ok(String(l.s \o r.s))
               [] OTHER -> Err(InterpreterUnexpectedOperation(operator)))
      [] operator = "==" -> Ok(Boolean(equals(l, r)))
      [] operator = "!=" -> Ok(Boolean(~equals(l, r)))
      [] OTHER -> Err(InterpreterUnexpectedOperation(operator))

\* history helper: an equality test logs its operands and outcome
binary_logged(st, operator, l, r, res) ==
    R(IF operator \in {"==", "!="}
      THEN Log(st, [ev |-> "equals", l |-> l, r |-> r, operator |-> operator, res |-> res])
      ELSE st,
      res)

\* an evaluator whose Logical arm never returns the left operand
returns_left_never(operator, left_value) == FALSE

\* the two `if`s of the Logical arm: is the left operand's value the result
returns_left(operator, left_value) ==
    CASE operator = "or" -> is_truthy(left_value)
      [] operator = "and" -> ~is_truthy(left_value)

\* history helper: what the evaluation has made observable so far
Effects(st) == [envs |-> st.envs, objs |-> st.objs, out |-> st.out, ncalls |-> st.ncalls]

\* history helper: the outcome of an operand that was not evaluated
Skipped == [k |-> "skipped"]

\* history helper: the event logged by a Logical expression whose left operand
\* evaluated to left and whose right operand's outcome is right
logical_event(expression, left, right, after) ==
    [ev |-> "logical", operator |-> expression.operator, left |-> left.r.v,
     right |-> right, skipped |-> right = Skipped,
     after_left |-> Effects(left.st), after |-> Effects(after)]

\* the operator arms of a Unary expression, given the operand value
unary_operation(os, operator, right) ==
    CASE operator = "-" ->
            IF extract_number(os, right).k = "ok" THEN Ok(Number(-right.n))
            ELSE extract_number(os, right)
      [] operator = "!" -> Ok(Boolean(~is_truthy(right)))
      [] OTHER -> Err(InterpreterUnexpectedOperation(operator))

lookup_variable(es, lcs, expression, name, env) ==
    IF expression \in DOMAIN lcs
    THEN environment_handle_get_at_depth(es, env, name, lcs[expression])
    ELSE get(es, env, name)

\* history helper: the event logged by an assignment made from environment
\* env: the environment of the chain that held the name (0 when none did)
\* and the environments before and after
assign_event(st, expression, env, value, envs_after) ==
    [ev |-> "assign", name |-> expression.name, value |-> value, env |-> env,
     target |-> FoundEnv(st.envs, env, expression.name),
     envs_before |-> st.envs, envs_after |-> envs_after]

\* the two ways the Assign arm stores the value
assign_variable(st, expression, env, value) ==
    IF expression \in DOMAIN st.locals
    THEN R([st EXCEPT !.envs = environment_handle_assign_at_depth(
                                   @, env, expression.name, st.locals[expression], value)],
           Ok(value))
    ELSE Bind(assign(st.envs, env, expression.name, value), LAMBDA a :
           Logged([st EXCEPT !.envs = a.envs],
                  assign_event(st, expression, env, value, a.envs),
                  IF a.r.k = "ok" THEN Ok(value) ELSE a.r))

SuperExpect ==
    Panic("interpreter evaluating LoxExpression::Super expects a defined superclass method.")

\* the Super arm once the distance is known
evaluate_super(st, env, method, distance) ==
    Bind(environment_handle_get_at_depth(st.envs, env, "super", distance), LAMBDA super_class :
      IF super_class.k # "ok" THEN R(st, super_class)
      ELSE Bind(class_find_method(st.objs, super_class.v, method), LAMBDA m :
        IF m = Nil THEN R(st, SuperExpect)
        ELSE IF distance = 0 THEN R(st, Panic("attempt to subtract with overflow"))
        ELSE Bind(environment_handle_get_at_depth(st.envs, env, "this", distance - 1),
                  LAMBDA this_instance :
                    IF this_instance.k # "ok" THEN R(st, this_instance)
                    ELSE class_method_bind_this(st, m, this_instance.v))))

RECURSIVE evaluate_expression(_, _, _), evaluate_arguments(_, _, _, _, _),
          evaluate_statement(_, _, _), statement_arms(_, _, _),
          execute_block_statement(_, _, _, _), while_loop(_, _, _, _),
          call(_, _, _, _), call_function(_, _, _), call_class(_, _, _, _)

evaluate_expression(expression, env, st) ==
    CASE expression.e = "NoOp" -> R(st, Ok(Nil))
      [] expression.e = "Literal" -> R(st, Ok(evaluate_literal(expression.value)))
      [] expression.e = "Group" -> evaluate_expression(expression.expression, env, st)
      [] expression.e = "Unary" ->
            Try(evaluate_expression(expression.right, env, st), LAMBDA right :
              R(right.st, unary_operation(right.st.objs, expression.operator, right.r.v)))
      [] expression.e = "Binary" ->
            Try(evaluate_expression(expression.left, env, st), LAMBDA left :
              Try(evaluate_expression(expression.right, env, left.st), LAMBDA right :
                binary_logged(right.st, expression.operator, left.r.v, right.r.v,
                              binary_operation(right.st.objs, expression.operator,
                                               left.r.v, right.r.v))))
      [] expression.e = "Logical" ->
            Try(evaluate_expression(expression.left, env, st), LAMBDA left :
              IF expression.operator \notin {"or", "and"}
              THEN R(left.st, Err(InterpreterUnexpectedOperation(expression.operator)))
              ELSE IF returns_left(expression.operator, left.r.v)
              THEN Logged(left.st, logical_event(expression, left, Skipped, left.st), left.r)
              ELSE Bind(evaluate_expression(expression.right, env, left.st), LAMBDA right :
                     Logged(right.st, logical_event(expression, left, right.r, right.st),
                            right.r)))
      [] expression.e = "Variable" ->
            R(Log(st, [ev |-> "read", name |-> expression.name, fn |-> st.cur,
                       found |-> FoundEnv(st.envs, env, expression.name)]),
              get(st.envs, env, expression.name))
      [] expression.e = "Assign" ->
            Try(evaluate_expression(expression.value, env, st), LAMBDA value :
              assign_variable(value.st, expression, env, value.r.v))
      [] expression.e = "Get" ->
            Try(evaluate_expression(expression.object, env, st), LAMBDA object :
              lox_value_handle_instance_get_field(object.st, object.r.v, expression.name))
      [] expression.e = "Set" ->
            Try(evaluate_expression(expression.object, env, st), LAMBDA object :
              Try(evaluate_expression(expression.value, env, object.st), LAMBDA value :
                lox_value_handle_instance_set_field(value.st, object.r.v,
                                                    expression.name, value.r.v)))
      [] expression.e = "Call" ->
            Try(evaluate_expression(expression.callee, env, st), LAMBDA callee :
              Try(evaluate_arguments(expression.arguments, 1, <<>>, env, callee.st),
                  LAMBDA args : call(callee.r.v, env, args.r.v, args.st)))
      [] expression.e = "This" ->
            R(st, lookup_variable(st.envs, st.locals, expression, "this", env))
      [] expression.e = "Super" ->
            IF expression \notin DOMAIN st.locals THEN R(st, SuperExpect)
            ELSE evaluate_super(st, env, expression.method, st.locals[expression])

\* the argument loop of the Call arm, from index i: Ok carries the vector
evaluate_arguments(arguments, i, values, env, st) ==
    IF i > Len(arguments) THEN R(st, Ok(values))
    ELSE Try(evaluate_expression(arguments[i], env, st), LAMBDA a :
           evaluate_arguments(arguments, i + 1, Append(values, a.r.v), env, a.st))

\* LoxCallable::call, Function arm
call_function(callee, arguments, st) ==
    IF st.objs[callee.id].arity # Len(arguments)
    THEN Logged(Counted(st),
                function_event(st, callee, arguments) @@
                    [body |-> [k |-> "none"], this_r |-> [k |-> "none"], bodies |-> 0],
                Err(InterpreterCallableWrongArity(st.objs[callee.id].arity, Len(arguments))))
    ELSE Bind(execute_block_statement(st.objs[callee.id].declaration.body, 1, NewEnvId(st),
                                      function_env_state(st, callee, arguments)),
              LAMBDA b :
         Bind(environment_handle_get_at_depth(b.st.envs, st.objs[callee.id].closure, "this", 0),
              LAMBDA this_r :
           Logged([b.st EXCEPT !.cur = st.cur],
                  function_event(st, callee, arguments) @@
                      [body |-> b.r, this_r |-> this_r, bodies |-> b.st.nbodies - st.nbodies],
                  call_function_result(function_is_initializer(b.st.objs, callee),
                                       b.r, this_r))))

\* LoxCallable::call, NativeFunction arm
call_native(callee, arguments, st) ==
    Logged(Counted(st),
           call_event(st, callee, arguments) @@ [body |-> [k |-> "none"], bodies |-> 0],
           IF st.objs[callee.id].arity # Len(arguments)
           THEN Err(InterpreterCallableWrongArity(st.objs[callee.id].arity, Len(arguments)))
           ELSE clock_execute(st))

\* history helper: what a call of a Class logs on top of call_event
class_event(st, callee, arguments) ==
    call_event(st, callee, arguments) @@
    [instance |-> Ref(NewObjId(st)),
     has_init |-> class_find_method(st.objs, callee, "init") # Nil]

\* LoxCallable::call, Class arm: the instance is allocated first; the
\* initializer, when there is one, is bound to `self` (the class) and called
call_class(callee, env, arguments, st) ==
    Bind(Alloc(Counted(st), [k |-> "ClassInstance", class |-> callee, fields |-> EmptyMap]),
         LAMBDA st1 :
      Bind(class_find_method(st1.objs, callee, "init"), LAMBDA initializer :
        IF initializer # Nil
        THEN Bind(class_method_bind_this(st1, initializer, callee), LAMBDA bound :
               IF bound.r.k = "none" THEN R(bound.st, Panic("unwrap on None"))
               ELSE Bind(call(bound.r.v, env, arguments, bound.st), LAMBDA c :
                      Logged(c.st,
                             class_event(st, callee, arguments) @@
                                 [init_this |-> get(bound.st.envs,
                                                    bound.st.objs[bound.r.v.id].closure,
                                                    "this").v,
                                  bodies |-> c.st.nbodies - st.nbodies],
                             IF c.r.k # "ok" THEN c.r ELSE Ok(Ref(NewObjId(st))))))
        ELSE Logged(st1,
                    class_event(st, callee, arguments) @@ [init_this |-> Nil, bodies |-> 0],
                    Ok(Ref(NewObjId(st))))))

\* LoxCallable::call on the value `callee`
call(callee, env, arguments, st) ==
    CASE Kind(st.objs, callee) = "Function" -> call_function(callee, arguments, st)
      [] Kind(st.objs, callee) = "NativeFunction" -> call_native(callee, arguments, st)
      [] Kind(st.objs, callee) = "Class" -> call_class(callee, env, arguments, st)
      [] OTHER ->
            Logged(st, call_event(st, callee, arguments) @@ [bodies |-> 0], call_fallback)

\* a Block arm that runs the statements in the enclosing environment
block_env_enclosing(st, env) == env

\* the Block arm's block_env: the handle LoxEnvironment::new returns
block_env(st, env) == NewEnvId(st)

\* history helper: the event logged when a block ends: the enclosing
\* environment's map at entry and at exit, and what became of block_env
block_event(st, env, after) ==
    [ev |-> "block", env |-> env, block_env |-> block_env(st, env),
     start |-> Len(st.trace),
     fresh |-> block_env(st, env) \notin DOMAIN st.envs,
     outer |-> after.envs[block_env(st, env)].outer,
     block_names |-> DOMAIN after.envs[block_env(st, env)].values,
     before |-> st.envs[env].values, after |-> after.envs[env].values]

\* `for statement in statements { evaluate_statement(statement)?; }`, from index i
execute_block_statement(statements, i, env, st) ==
    IF i > Len(statements) THEN R(st, Ok(Nil))
    ELSE Try(evaluate_statement(statements[i], env, st), LAMBDA s :
           execute_block_statement(statements, i + 1, env, s.st))

\* the loop of the While arm
while_loop(condition, body, env, st) ==
    Try(evaluate_expression(condition, env, st), LAMBDA c :
      IF ~is_truthy(c.r.v) THEN R(c.st, Ok(Nil))
      ELSE Try(evaluate_statement(body, env, c.st), LAMBDA b :
             while_loop(condition, body, env, b.st)))

\* the method loop of the Class arm, from index i: Ok carries the table
RECURSIVE evaluate_methods(_, _, _, _, _)
evaluate_methods(methods, i, evaluated_methods, class_env, st) ==
    IF i > Len(methods) THEN R(st, Ok(evaluated_methods))
    ELSE IF methods[i].s # "Function"
    THEN R(st, Panic("interpreter: expected a function statement in class methods"))
    ELSE evaluate_methods(methods, i + 1,
                          (methods[i].name :> Ref(NewObjId(st))) @@ evaluated_methods,
                          class_env,
                          Alloc(st, [k |-> "Function",
                                     arity |-> Len(methods[i].parameters),
                                     is_initializer |-> (methods[i].name = "init"),
                                     declaration |-> methods[i],
                                     closure |-> class_env]))

\* LoxValue::is_class, as the Class arm of evaluate_statement uses it
is_class(os, v) == Kind(os, v) = "Class"

\* the Class arm after the superclass value: the name is pre-declared, then
\* "super" is defined in class_env, a clone of the handle env (so env itself)
class_env_state(st, env, statement, super_class_value) ==
    IF statement.super_class.e = "NoOp"
    THEN [st EXCEPT !.envs = define(@, env, statement.name, Nil)]
    ELSE [st EXCEPT !.envs = define(define(@, env, statement.name, Nil),
                                    env, "super", super_class_value)]

\* the Class arm's end: the class value is built and bound to its name
define_class(st, env, statement, super_class_value, evaluated_methods) ==
    R([Alloc(st, [k |-> "Class", name |-> statement.name,
                  super_class |-> super_class_value,
                  methods |-> evaluated_methods])
          EXCEPT !.envs = define(@, env, statement.name, Ref(NewObjId(st)))],
      Ok(Nil))

\* the match of evaluate_statement
statement_arms(statement, env, st) ==
    CASE statement.s = "NoOp" -> R(st, Ok(Nil))
      [] statement.s = "Expression" ->
            Try(evaluate_expression(statement.expression, env, st), LAMBDA x :
              R(x.st, Ok(Nil)))
      [] statement.s = "Print" ->
            Try(evaluate_expression(statement.expression, env, st), LAMBDA value :
              R([value.st EXCEPT !.out = Append(@, representation(value.st.objs, value.r.v))],
                Ok(Nil)))
      [] statement.s = "Variable" ->
            Try(evaluate_expression(statement.initializer, env, st), LAMBDA value :
              R([value.st EXCEPT !.envs = define(@, env, statement.name, value.r.v)],
                Ok(Nil)))
      [] statement.s = "Block" ->
            Bind(execute_block_statement(statement.statements, 1, block_env(st, env),
                                         LoxEnvironment_new(st, env)),
                 LAMBDA b : Logged(b.st, block_event(st, env, b.st), b.r))
      [] statement.s = "If" ->
            Try(evaluate_expression(statement.condition, env, st), LAMBDA condition_value :
              IF is_truthy(condition_value.r.v)
              THEN Try(evaluate_statement(statement.then_branch, env, condition_value.st),
                       LAMBDA t : R(t.st, Ok(Nil)))
              ELSE IF statement.else_branch.s # "NoOp"
              THEN Try(evaluate_statement(statement.else_branch, env, condition_value.st),
                       LAMBDA f : R(f.st, Ok(Nil)))
              ELSE R(condition_value.st, Ok(Nil)))
      [] statement.s = "While" ->
            while_loop(statement.condition, statement.body, env, st)
      [] statement.s = "Function" ->
            R([Alloc(st, [k |-> "Function", is_initializer |-> FALSE,
                          arity |-> Len(statement.parameters),
                          declaration |-> statement, closure |-> env])
                  EXCEPT !.envs = define(@, env, statement.name, Ref(NewObjId(st)))],
              Ok(Nil))
      [] statement.s = "Return" ->
            IF statement.value.e = "NoOp"
            THEN R(st, Err(InterpreterReturn(Nil)))
            ELSE Try(evaluate_expression(statement.value, env, st), LAMBDA value :
                   R(value.st, Err(InterpreterReturn(value.r.v))))
      [] statement.s = "Class" ->
            Try(IF statement.super_class.e = "NoOp" THEN R(st, Ok(Nil))
                ELSE evaluate_expression(statement.super_class, env, st),
                LAMBDA sup :
              IF statement.super_class.e # "NoOp" /\ ~is_class(sup.st.objs, sup.r.v)
              THEN R(sup.st, Err(InterpreterSuperClassNotAClass))
              ELSE Try(evaluate_methods(statement.methods, 1, EmptyMap, env,
                                        class_env_state(sup.st, env, statement, sup.r.v)),
                       LAMBDA ms :
                         define_class(ms.st, env, statement, sup.r.v, ms.r.v)))

\* history helper: the statement's outcome with the enclosing statement's
\* mark put back
Unmarked(res, mark) == R([res.st EXCEPT !.mark = mark], res.r)

\* evaluate_statement; the history field mark is set to the output length and
\* call count at the start of the statement
evaluate_statement(statement, env, st) ==
    Unmarked(statement_arms(statement, env,
                            [st EXCEPT !.mark = [out |-> Len(st.out), calls |-> st.ncalls]]),
             st.mark)

\* LoxTreeWalkEvaluator::evaluate: operations run against the globals handle
globals == 1

evaluate(operation, st) ==
    CASE operation.o = "Invalid" -> R(st, Ok(Nil))
      [] operation.o = "Expression" -> evaluate_expression(operation.expression, globals, st)
      [] operation.o = "Statement" -> evaluate_statement(operation.statement, globals, st)

(***************************************************************************)
(* The resolver (src/interpreter/resolver.rs).  Its state rs is            *)
(* [scopes, current_class_kind, current_function_kind] and the history     *)
(* fields visited and log; a handler returns [rs, r] with r the            *)
(* Result<()>.  An early return by `?` leaves rs as it is at that point.   *)
(***************************************************************************)
ResolverError(kind) == Err([kind |-> kind])

RR(rs, r) == [rs |-> rs, r |-> r]

\* history helper: rs.log keeps the declarations, definitions and reads of
\* variables in the order the resolver made them
Noted(rs, event) == [rs EXCEPT !.log = Append(@, event)]

begin_scope(rs) == [rs EXCEPT !.scopes = Append(@, [x \in {} |-> FALSE])]

end_scope(rs) ==
    [rs EXCEPT !.scopes = IF Len(@) = 0 THEN @ ELSE SubSeq(@, 1, Len(@) - 1)]

\* a declare that marks the name as defined at once
declare_marking_defined(rs, name) ==
    LET declared ==
          IF Len(rs.scopes) = 0 THEN RR(rs, Ok(Nil))
          ELSE IF name \in DOMAIN rs.scopes[Len(rs.scopes)]
          THEN RR(rs, ResolverError("ResolverDuplicateVariableDeclaration"))
          ELSE RR([rs EXCEPT !.scopes[Len(rs.scopes)] = (name :> TRUE) @@ @], Ok(Nil))
    IN RR(Noted(declared.rs, [ev |-> "declare", name |-> name, scopes |-> rs.scopes,
                              r |-> declared.r]),
          declared.r)

declare(rs, name) ==
    LET declared ==
          IF Len(rs.scopes) = 0 THEN RR(rs, Ok(Nil))
          ELSE IF name \in DOMAIN rs.scopes[Len(rs.scopes)]
          THEN RR(rs, ResolverError("ResolverDuplicateVariableDeclaration"))
          ELSE RR([rs EXCEPT !.scopes[Len(rs.scopes)] = (name :> FALSE) @@ @], Ok(Nil))
    IN RR(Noted(declared.rs, [ev |-> "declare", name |-> name, scopes |-> rs.scopes,
                              r |-> declared.r]),
          declared.r)

resolver_define(rs, name) ==
    LET defined ==
          IF Len(rs.scopes) = 0 THEN rs
          ELSE [rs EXCEPT !.scopes[Len(rs.scopes)] = (name :> TRUE) @@ @]
    IN Noted(defined, [ev |-> "define", name |-> name, scopes |-> defined.scopes,
                       r |-> Ok(Nil)])

\* the loop over the scopes has an empty body: nothing is recorded in the
\* evaluator.  rs.visited is history: the calls made, each with the scopes
\* it was made under
resolve_local_variable(rs, expression, name) ==
    RR([rs EXCEPT !.visited =
            Append(@, [expression |-> expression, name |-> name, scopes |-> rs.scopes])],
       Ok(Nil))

RECURSIVE resolve_expression(_, _), resolve_expressions(_, _, _),
          resolve_statement(_, _), resolve_statements(_, _, _),
          resolve_function(_, _, _), resolve_methods(_, _, _)

resolve_expression(rs, expression) ==
    CASE expression.e = "NoOp" -> RR(rs, Ok(Nil))
      [] expression.e = "This" ->
            IF rs.current_class_kind = "None"
            THEN RR(rs, ResolverError("ResolverImpossibleThisUsage"))
            ELSE resolve_local_variable(rs, expression, "this")
      [] expression.e = "Super" -> RR(rs, Panic("not yet implemented"))
      [] expression.e = "Variable" ->
            IF /\ Len(rs.scopes) # 0
               /\ expression.name \in DOMAIN rs.scopes[Len(rs.scopes)]
               /\ rs.scopes[Len(rs.scopes)][expression.name] = FALSE
            THEN RR(Noted(rs, [ev |-> "read", name |-> expression.name,
                               scopes |-> rs.scopes,
                               r |-> ResolverError("ResolverRecursiveLocalAssignment")]),
                    ResolverError("ResolverRecursiveLocalAssignment"))
            ELSE Bind(Noted(rs, [ev |-> "read", name |-> expression.name,
                                 scopes |-> rs.scopes, r |-> Ok(Nil)]),
                      LAMBDA read :
                        IF Len(rs.scopes) # 0
                        THEN resolve_local_variable(read, expression, expression.name)
                        ELSE RR(read, Ok(Nil)))
      [] expression.e = "Assign" ->
            Try(resolve_expression(rs, expression.value), LAMBDA v :
              resolve_local_variable(v.rs, expression, expression.name))
      [] expression.e = "Get" -> resolve_expression(rs, expression.object)
      [] expression.e = "Set" ->
            Try(resolve_expression(rs, expression.value), LAMBDA v :
              resolve_expression(v.rs, expression.object))
      [] expression.e = "Call" ->
            Try(resolve_expression(rs, expression.callee), LAMBDA c :
              resolve_expressions(c.rs, expression.arguments, 1))
      [] expression.e = "Unary" -> resolve_expression(rs, expression.right)
      [] expression.e \in {"Binary", "Logical"} ->
            Try(resolve_expression(rs, expression.left), LAMBDA l :
              resolve_expression(l.rs, expression.right))
      [] expression.e = "Literal" -> RR(rs, Ok(Nil))
      [] expression.e = "Group" -> resolve_expression(rs, expression.expression)

resolve_expressions(rs, expressions, i) ==
    IF i > Len(expressions) THEN RR(rs, Ok(Nil))
    ELSE Try(resolve_expression(rs, expressions[i]), LAMBDA x :
           resolve_expressions(x.rs, expressions, i + 1))

resolve_statements(rs, statements, i) ==
    IF i > Len(statements) THEN RR(rs, Ok(Nil))
    ELSE Try(resolve_statement(rs, statements[i]), LAMBDA x :
           resolve_statements(x.rs, statements, i + 1))

\* the parameter loop of resolve_function, from index i
RECURSIVE resolve_parameters(_, _, _)
resolve_parameters(rs, parameters, i) ==
    IF i > Len(parameters) THEN RR(rs, Ok(Nil))
    ELSE Try(declare(rs, parameters[i]), LAMBDA d :
           resolve_parameters(resolver_define(d.rs, parameters[i]), parameters, i + 1))

resolve_function(rs, function, kind) ==
    IF function.s # "Function"
    THEN RR(rs, ResolverError("ResolverUnexpectedOperation"))
    ELSE Try(resolve_parameters(begin_scope([rs EXCEPT !.current_function_kind = kind]),
                                function.parameters, 1),
             LAMBDA ps :
           Try(resolve_statements(ps.rs, function.body, 1), LAMBDA b :
             RR([end_scope(b.rs) EXCEPT !.current_function_kind = rs.current_function_kind],
                Ok(Nil))))

\* the method loop of the Class arm, from index i
resolve_methods(rs, methods, i) ==
    IF i > Len(methods) THEN RR(rs, Ok(Nil))
    ELSE IF methods[i].s # "Function" THEN RR(rs, Panic("unwrap on None"))
    ELSE Try(resolve_function(rs, methods[i],
                              IF methods[i].name = "init" THEN "ClassInitializer"
                              ELSE "ClassMethod"),
             LAMBDA m : resolve_methods(m.rs, methods, i + 1))

\* the scope the Class arm opens for the methods, holding "this"
class_scope(rs) ==
    [begin_scope(rs) EXCEPT !.scopes[Len(rs.scopes) + 1] = ("this" :> TRUE) @@ @]

resolve_statement(rs, statement) ==
    CASE statement.s = "NoOp" -> RR(rs, Ok(Nil))
      [] statement.s = "Block" ->
            Try(resolve_statements(begin_scope(rs), statement.statements, 1), LAMBDA b :
              RR(end_scope(b.rs), Ok(Nil)))
      [] statement.s = "Expression" -> resolve_expression(rs, statement.expression)
      [] statement.s = "Variable" ->
            Try(declare(rs, statement.name), LAMBDA d :
              Try(IF statement.initializer.e # "NoOp"
                  THEN resolve_expression(d.rs, statement.initializer)
                  ELSE d,
                  LAMBDA x : RR(resolver_define(x.rs, statement.name), Ok(Nil))))
      [] statement.s = "Function" ->
            Try(declare(rs, statement.name), LAMBDA d :
              resolve_function(resolver_define(d.rs, statement.name), statement, "Function"))
      [] statement.s = "Return" ->
            IF rs.current_function_kind = "None"
            THEN RR(rs, ResolverError("ResolverImpossibleTopLevelReturn"))
            ELSE IF statement.value.e # "NoOp"
            THEN (IF rs.current_function_kind = "ClassInitializer"
                  THEN RR(rs, ResolverError("ResolverImpossibleInitializerReturn"))
                  ELSE resolve_expression(rs, statement.value))
            ELSE RR(rs, Ok(Nil))
      [] statement.s = "Class" ->
            Try(declare([rs EXCEPT !.current_class_kind = "Class"], statement.name), LAMBDA d :
              Try(resolve_methods(class_scope(resolver_define(d.rs, statement.name)),
                                  statement.methods, 1),
                  LAMBDA ms :
                    RR([end_scope(ms.rs) EXCEPT !.current_class_kind = rs.current_class_kind],
                       Ok(Nil))))
      [] statement.s = "If" ->
            Try(resolve_expression(rs, statement.condition), LAMBDA c :
              Try(resolve_statement(c.rs, statement.then_branch), LAMBDA t :
                IF statement.else_branch.s # "NoOp"
                THEN resolve_statement(t.rs, statement.else_branch)
                ELSE t))
      [] statement.s = "While" ->
            Try(resolve_expression(rs, statement.condition), LAMBDA c :
              resolve_statement(c.rs, statement.body))
      [] statement.s = "Print" -> resolve_expression(rs, statement.expression)

resolve(rs, operation) ==
    CASE operation.o = "Invalid" -> RR(rs, Ok(Nil))
      [] operation.o = "Statement" -> resolve_statement(rs, operation.statement)
      [] operation.o = "Expression" -> resolve_expression(rs, operation.expression)

(***************************************************************************)
(* interpret (src/interpreter.rs): resolve every operation, then evaluate  *)
(* them in order.                                                          *)
(***************************************************************************)
RECURSIVE interpret_resolve(_, _, _)
interpret_resolve(rs, operations, i) ==
    IF i > Len(operations) THEN RR(rs, Ok(Nil))
    ELSE Try(resolve(rs, operations[i]), LAMBDA x :
           interpret_resolve(x.rs, operations, i + 1))

RECURSIVE interpret_evaluate(_, _, _, _)
interpret_evaluate(operations, i, last_value, st) ==
    IF i > Len(operations) THEN R(st, Ok(last_value))
    ELSE Bind(evaluate(operations[i], st), LAMBDA e :
           Try(Logged(e.st, [ev |-> "operation", index |-> i], e.r), LAMBDA x :
             interpret_evaluate(operations, i + 1, x.r.v, x.st)))

\* an interpret that evaluates the operations before it resolves them
interpret_evaluating_first(rs, operations, st) ==
    Bind(interpret_evaluate(operations, 1, Nil, st), LAMBDA ev :
      IF ev.r.k # "ok" THEN [rs |-> rs, st |-> ev.st, r |-> ev.r]
      ELSE Bind(interpret_resolve(rs, operations, 1), LAMBDA res :
             [rs |-> res.rs, st |-> ev.st, r |-> IF res.r.k # "ok" THEN res.r ELSE ev.r]))

\* [rs, st, r]: the resolver state, the evaluation state and the result
interpret(rs, operations, st) ==
    Bind(interpret_resolve(rs, operations, 1), LAMBDA res :
      IF res.r.k # "ok" THEN [rs |-> res.rs, st |-> st, r |-> res.r]
      ELSE Bind(interpret_evaluate(operations, 1, Nil, st), LAMBDA ev :
             [rs |-> res.rs, st |-> ev.st, r |-> ev.r]))

(***************************************************************************)
(* The parser (src/parser.rs).  Its state p is [tokens, current, reported]:*)
(* the tokens, the (0-based) index of the current token and the errors     *)
(* handle_declaration has printed.  A handler returns [p, r], r being its  *)
(* Result; as the handlers work on &mut self, an Err leaves p where the    *)
(* error was met.  A LoxToken is [kind, lexeme], with the literal's value  *)
(* for a String or a Number.                                               *)
(***************************************************************************)
Token(kind, lexeme) == [kind |-> kind, lexeme |-> lexeme]

NumberToken(n) == [kind |-> "Number", lexeme |-> ToString(n), value |-> n]

StringToken(x) == [kind |-> "String", lexeme |-> x, value |-> x]

EndOfFile == Token("EndOfFile", "")

is_string(kind) == kind = "String"

is_number(kind) == kind = "Number"

is_identifier(kind) == kind = "Identifier"

build_literal(token) ==
    CASE token.kind = "String" -> LString(token.value)
      [] token.kind = "Number" -> LNumber(token.value)
      [] token.kind = "True" -> LTrue
      [] token.kind = "False" -> LFalse
      [] token.kind = "Nil" -> LNil

from_tokens(tokens) == [tokens |-> tokens, current |-> 0, reported |-> <<>>]

PR(p, r) == [p |-> p, r |-> r]

peek(p) == p.tokens[p.current + 1]

peek_previous(p) == p.tokens[p.current]

is_at_end(p) == peek(p).kind = "EndOfFile"

check(p, kind) == IF is_at_end(p) THEN FALSE ELSE peek(p).kind = kind

\* the state after advance(); the token it returns is peek_previous of it
advance(p) == IF ~is_at_end(p) THEN [p EXCEPT !.current = @ + 1] ELSE p

\* [matched, p]: the answer and the state after the call
match_kinds(p, kinds) ==
    IF \E kind \in kinds : check(p, kind)
    THEN [matched |-> TRUE, p |-> advance(p)]
    ELSE [matched |-> FALSE, p |-> p]

build_parse_error(token, error_message) ==
    [kind |-> "ParserError", token |-> token, message |-> error_message]

consume_kind(p, kind, error_message) ==
    IF check(p, kind) THEN PR(advance(p), Ok(peek(p)))
    ELSE PR(p, Err(build_parse_error(peek(p), error_message)))

consume_identifier(p, error_message) ==
    IF ~is_at_end(p) /\ is_identifier(peek(p).kind) THEN PR(advance(p), Ok(peek(p)))
    ELSE PR(p, Err(build_parse_error(peek(p), error_message)))

match_identifier(p) ==
    IF is_at_end(p) \/ ~is_identifier(peek(p).kind)
    THEN [matched |-> FALSE, p |-> p]
    ELSE [matched |-> TRUE, p |-> advance(p)]

match_string(p) ==
    IF is_at_end(p) \/ ~is_string(peek(p).kind)
    THEN [matched |-> FALSE, p |-> p]
    ELSE [matched |-> TRUE, p |-> advance(p)]

match_number(p) ==
    IF is_at_end(p) \/ ~is_number(peek(p).kind)
    THEN [matched |-> FALSE, p |-> p]
    ELSE [matched |-> TRUE, p |-> advance(p)]

as_expression(operation) ==
    IF operation.o = "Expression" THEN Ok(operation.expression)
    ELSE Err([kind |-> "ParserUnexpectedOperation",
              message |-> "operation is not an expression"])

as_statement(operation) ==
    IF operation.o = "Statement" THEN Ok(operation.statement)
    ELSE Err([kind |-> "ParserUnexpectedOperation",
              message |-> "operation is not a statement"])

\* `handler()?.as_expression()?` and `handler()?.as_statement()?`
AsExpression(a) == IF a.r.k # "ok" THEN a ELSE PR(a.p, as_expression(a.r.v))

AsStatement(a) == IF a.r.k # "ok" THEN a ELSE PR(a.p, as_statement(a.r.v))

\* the kinds at which synchronize stops
SynchronizationKinds ==
    {"Class", "Fun", "Var", "For", "If", "While", "Print", "Return"}

\* the while loop of synchronize
RECURSIVE synchronize_loop(_)
synchronize_loop(p) ==
    IF is_at_end(p) THEN p
    ELSE IF \/ peek_previous(p).kind = "Semicolon"
            \/ peek(p).kind \in SynchronizationKinds
    THEN p
    ELSE synchronize_loop(advance(p))

synchronize(p) == synchronize_loop(advance(p))

\* The lexer's classification of a lexeme (src/lexer.rs): the keywords map,
\* the punctuation, the number literals and, for the rest, identifiers.
Keywords ==
    [and |-> "And", class |-> "Class", else |-> "Else", false |-> "False",
     for |-> "For", fun |-> "Fun", if |-> "If", nil |-> "Nil", or |-> "Or",
     print |-> "Print", return |-> "Return", super |-> "Super", this |-> "This",
     true |-> "True", var |-> "Var", while |-> "While"]

Punctuation ==
    ("(" :> "LeftParenthesis") @@ (")" :> "RightParenthesis") @@ ("{" :> "LeftBrace")
    @@ ("}" :> "RightBrace") @@ ("," :> "Comma") @@ ("." :> "Dot") @@ ("-" :> "Minus")
    @@ ("+" :> "Plus") @@ (";" :> "Semicolon") @@ ("/" :> "Slash") @@ ("*" :> "Star")
    @@ ("!" :> "Bang") @@ ("!=" :> "BangEqual") @@ ("=" :> "Equal")
    @@ ("==" :> "EqualEqual") @@ (">" :> "Greater") @@ (">=" :> "GreaterEqual")
    @@ ("<" :> "Less") @@ ("<=" :> "LessEqual")

Digits == [n \in 0..MaxNum |-> ToString(n)]

scan_token(lexeme) ==
    CASE lexeme \in DOMAIN Keywords -> Token(Keywords[lexeme], lexeme)
      [] lexeme \in DOMAIN Punctuation -> Token(Punctuation[lexeme], lexeme)
      [] \E n \in DOMAIN Digits : Digits[n] = lexeme ->
            NumberToken(CHOOSE n \in DOMAIN Digits : Digits[n] = lexeme)
      [] OTHER -> Token("Identifier", lexeme)

\* the tokens of a source given as its lexemes, closed by EndOfFile
Lex(lexemes) == [i \in 1..Len(lexemes) |-> scan_token(lexemes[i])] \o <<EndOfFile>>

\* the binary levels of the grammar, from handle_or to handle_factor: the
\* operators each loops on
LevelKinds ==
    << {"Or"}, {"And"}, {"BangEqual", "EqualEqual"},
       {"Greater", "GreaterEqual", "Less", "LessEqual"},
       {"Minus", "Plus"}, {"Slash", "Star"} >>

\* the expression each level builds
LevelExpression(level, left, operator, right) ==
    IF level <= 2 THEN Logical(left, operator.lexeme, right)
    ELSE Binary(left, operator.lexeme, right)

RECURSIVE handle_expression(_), handle_assignment(_), handle_level(_, _),
          level_loop(_, _, _), handle_unary(_), handle_call(_), call_loop(_, _),
          finish_call(_, _), arguments_loop(_, _), handle_primary(_)

handle_expression(p) ==
    Try(handle_assignment(p), LAMBDA a : PR(a.p, Ok(OpExpression(a.r.v))))

handle_assignment(p) ==
    Try(handle_level(p, 1), LAMBDA expression :
      Bind(match_kinds(expression.p, {"Equal"}), LAMBDA m :
        IF ~m.matched THEN expression
        ELSE Try(handle_assignment(m.p), LAMBDA value :
               CASE expression.r.v.e = "Variable" ->
                       PR(value.p, Ok(Assign(expression.r.v.name, value.r.v)))
                 [] expression.r.v.e = "Get" ->
                       PR(value.p, Ok(Set(expression.r.v.object, expression.r.v.name,
                                          value.r.v)))
                 [] OTHER ->
                       PR(value.p, Err(build_parse_error(peek_previous(m.p),
                                                         "Invalid assignment target."))))))

\* handle_or .. handle_factor: an operand of the next level, then the loop
handle_level(p, level) ==
    Try(IF level < Len(LevelKinds) THEN handle_level(p, level + 1) ELSE handle_unary(p),
        LAMBDA expression : level_loop(expression.p, level, expression.r.v))

\* `while self.match_kinds(&kinds) { .. }`
level_loop(p, level, expression) ==
    Bind(match_kinds(p, LevelKinds[level]), LAMBDA m :
      IF ~m.matched THEN PR(p, Ok(expression))
      ELSE Try(IF level < Len(LevelKinds) THEN handle_level(m.p, level + 1)
               ELSE handle_unary(m.p),
               LAMBDA right :
                 level_loop(right.p, level,
                            LevelExpression(level, expression, peek_previous(m.p),
                                            right.r.v))))

handle_unary(p) ==
    Bind(match_kinds(p, {"Bang", "Minus"}), LAMBDA m :
      IF m.matched
      THEN Try(handle_unary(m.p), LAMBDA right :
             PR(right.p, Ok(Unary(peek_previous(m.p).lexeme, right.r.v))))
      ELSE handle_call(p))

handle_call(p) ==
    Try(handle_primary(p), LAMBDA expression : call_loop(expression.p, expression.r.v))

\* the loop of handle_call
call_loop(p, expression) ==
    IF match_kinds(p, {"LeftParenthesis"}).matched
    THEN Try(finish_call(advance(p), expression), LAMBDA c : call_loop(c.p, c.r.v))
    ELSE IF match_kinds(p, {"Dot"}).matched
    THEN Try(consume_identifier(advance(p), "Expect property name after '.'."),
             LAMBDA name : call_loop(name.p, Get(expression, name.r.v.lexeme)))
    ELSE PR(p, Ok(expression))

finish_call(p, callee) ==
    Try(IF ~check(p, "RightParenthesis")
        THEN Try(AsExpression(handle_expression(p)), LAMBDA first :
               arguments_loop(first.p, <<first.r.v>>))
        ELSE PR(p, Ok(<<>>)),
        LAMBDA arguments :
          Try(consume_kind(arguments.p, "RightParenthesis", "Expect ')' after arguments."),
              LAMBDA parenthesis : PR(parenthesis.p, Ok(CallE(callee, arguments.r.v)))))

\* `while self.match_kinds(&[Comma]) { arguments.push(..) }`
arguments_loop(p, arguments) ==
    IF ~match_kinds(p, {"Comma"}).matched THEN PR(p, Ok(arguments))
    ELSE Try(AsExpression(handle_expression(advance(p))), LAMBDA argument :
           arguments_loop(argument.p, Append(arguments, argument.r.v)))

handle_primary(p) ==
    CASE match_kinds(p, {"False"}).matched -> PR(advance(p), Ok(Literal(LFalse)))
      [] match_kinds(p, {"True"}).matched -> PR(advance(p), Ok(Literal(LTrue)))
      [] match_kinds(p, {"Nil"}).matched -> PR(advance(p), Ok(Literal(LNil)))
      [] match_number(p).matched \/ match_string(p).matched ->
            PR(advance(p), Ok(Literal(build_literal(peek(p)))))
      [] match_kinds(p, {"This"}).matched -> PR(advance(p), Ok(This))
      [] match_identifier(p).matched -> PR(advance(p), Ok(Variable(peek(p).lexeme)))
      [] match_kinds(p, {"LeftParenthesis"}).matched ->
            Try(AsExpression(handle_expression(advance(p))), LAMBDA expression :
              Try(consume_kind(expression.p, "RightParenthesis",
                               "Expect ')' after expression."),
                  LAMBDA c : PR(c.p, Ok(Group(expression.r.v)))))
      [] OTHER -> PR(p, Err(build_parse_error(peek(p), "Expect expression.")))

RECURSIVE handle_declaration(_), inner_parsing(_), handle_class_declaration(_),
          methods_loop(_, _), handle_function_declaration(_, _), parameters_loop(_, _),
          handle_statement(_), handle_if_statement(_), handle_while_statement(_),
          handle_for_statement(_), handle_statements_block(_), block_loop(_, _)

handle_variable_declaration(p) ==
    Try(consume_identifier(p, "Expect variable name."), LAMBDA name :
      Try(IF match_kinds(name.p, {"Equal"}).matched
          THEN AsExpression(handle_expression(advance(name.p)))
          ELSE PR(name.p, Ok(ENoOp)),
          LAMBDA initializer :
            Try(consume_kind(initializer.p, "Semicolon",
                             "Expect ';' after variable declaration."),
                LAMBDA s : PR(s.p, Ok(OpStatement(SVariable(name.r.v.lexeme,
                                                            initializer.r.v))))))) 

handle_print_statement(p) ==
    Try(AsExpression(handle_expression(p)), LAMBDA expression :
      Try(consume_kind(expression.p, "Semicolon", "Expect ';' after value."), LAMBDA s :
        PR(s.p, Ok(OpStatement(SPrint(expression.r.v))))))

handle_return_statement(p) ==
    Try(IF check(p, "Semicolon") THEN PR(p, Ok(ENoOp))
        ELSE AsExpression(handle_expression(p)),
        LAMBDA value :
          Try(consume_kind(value.p, "Semicolon", "Expect ';' after return value."),
              LAMBDA s : PR(s.p, Ok(OpStatement(SReturn(value.r.v))))))

handle_expression_statement(p) ==
    Try(AsExpression(handle_expression(p)), LAMBDA expression :
      Try(consume_kind(expression.p, "Semicolon", "Expect ';' after expression."),
          LAMBDA s : PR(s.p, Ok(OpStatement(SExpression(expression.r.v))))))

\* a desugaring that runs the increment before the body
for_desugaring_increment_first(p, initializer, condition, increment, body) ==
    PR(p, Ok(OpStatement(SBlock(<< initializer,
                                   SWhile(condition,
                                          SBlock(<< SExpression(increment),
                                                    body.statement >>)) >>))))

\* the 'for' statement syntax desugaring of handle_for_statement
for_desugaring(p, initializer, condition, increment, body) ==
    Try(IF increment.e # "NoOp"
        THEN Try(PR(p, as_statement(body)), LAMBDA b :
               PR(p, Ok(OpStatement(SBlock(<< b.r.v, SExpression(increment) >>)))))
        ELSE PR(p, Ok(body)),
        LAMBDA stepped :
          Try(PR(p, as_statement(stepped.r.v)), LAMBDA b :
            Bind(SWhile(IF condition.e = "NoOp" THEN Literal(LTrue) ELSE condition, b.r.v),
                 LAMBDA loop :
                   IF initializer.s # "NoOp"
                   THEN PR(p, Ok(OpStatement(SBlock(<< initializer, loop >>))))
                   ELSE PR(p, Ok(OpStatement(loop))))))

\* the parameters of a function declaration that number 255 or more are only
\* reported on the standard output: the bounds here stay below that
handle_function_declaration(p, kind) ==
    Try(consume_identifier(p, "Expect " \o kind \o " name."), LAMBDA name :
      Try(consume_kind(name.p, "LeftParenthesis", "Expect '(' after " \o kind \o " name."),
          LAMBDA l :
        Try(IF ~check(l.p, "RightParenthesis")
            THEN Try(consume_identifier(l.p, "Expect parameter name."), LAMBDA first :
                   parameters_loop(first.p, <<first.r.v.lexeme>>))
            ELSE PR(l.p, Ok(<<>>)),
            LAMBDA parameters :
          Try(consume_kind(parameters.p, "RightParenthesis", "Expect ')' after parameters."),
              LAMBDA r :
            Try(consume_kind(r.p, "LeftBrace", "Expect '{' before " \o kind \o " body."),
                LAMBDA b :
              Try(handle_statements_block(b.p), LAMBDA body :
                PR(body.p, Ok(OpStatement(SFunction(name.r.v.lexeme, parameters.r.v,
                                                    body.r.v))))))))))

\* `while self.match_kinds(&[Comma]) { parameters.push(..) }`
parameters_loop(p, parameters) ==
    IF ~match_kinds(p, {"Comma"}).matched THEN PR(p, Ok(parameters))
    ELSE Try(consume_identifier(advance(p), "Expect parameter name."), LAMBDA parameter :
           parameters_loop(parameter.p, Append(parameters, parameter.r.v.lexeme)))

handle_class_declaration(p) ==
    Try(consume_identifier(p, "Expect class name."), LAMBDA name :
      Try(consume_kind(name.p, "LeftBrace", "Expect '{' before class body."), LAMBDA l :
        Try(methods_loop(l.p, <<>>), LAMBDA methods :
          Try(consume_kind(methods.p, "RightBrace", "Expect '}' before class body."),
              LAMBDA r :
                PR(r.p, Ok(OpStatement(SClass(name.r.v.lexeme, ENoOp, methods.r.v))))))))

\* the method loop of handle_class_declaration
methods_loop(p, methods) ==
    IF ~check(p, "RightBrace") /\ ~is_at_end(p)
    THEN Try(AsStatement(handle_function_declaration(p, "method")), LAMBDA method :
           methods_loop(method.p, Append(methods, method.r.v)))
    ELSE PR(p, Ok(methods))

handle_if_statement(p) ==
    Try(consume_kind(p, "LeftParenthesis", "Expect '(' after 'if'."), LAMBDA l :
      Try(AsExpression(handle_expression(l.p)), LAMBDA condition :
        Try(consume_kind(condition.p, "RightParenthesis", "Expect ')' after if condition."),
            LAMBDA r :
          Try(AsStatement(handle_statement(r.p)), LAMBDA then_branch :
            Try(IF match_kinds(then_branch.p, {"Else"}).matched
                THEN AsStatement(handle_statement(advance(then_branch.p)))
                ELSE PR(then_branch.p, Ok(SNoOp)),
                LAMBDA else_branch :
                  PR(else_branch.p,
                     Ok(OpStatement(SIf(condition.r.v, then_branch.r.v,
                                        else_branch.r.v))))))))) 

handle_while_statement(p) ==
    Try(consume_kind(p, "LeftParenthesis", "Expect '(' after 'while'."), LAMBDA l :
      Try(AsExpression(handle_expression(l.p)), LAMBDA condition :
        Try(consume_kind(condition.p, "RightParenthesis", "Expect ')' after condition."),
            LAMBDA r :
          Try(AsStatement(handle_statement(r.p)), LAMBDA body :
            PR(body.p, Ok(OpStatement(SWhile(condition.r.v, body.r.v))))))))

handle_for_statement(p) ==
    Try(consume_kind(p, "LeftParenthesis", "Expect '(' after 'for'."), LAMBDA l :
      Try(IF match_kinds(l.p, {"Semicolon"}).matched THEN PR(advance(l.p), Ok(SNoOp))
          ELSE IF match_kinds(l.p, {"Var"}).matched
          THEN AsStatement(handle_variable_declaration(advance(l.p)))
          ELSE AsStatement(handle_expression_statement(l.p)),
          LAMBDA initializer :
        Try(IF check(initializer.p, "Semicolon") THEN PR(initializer.p, Ok(ENoOp))
            ELSE AsExpression(handle_expression(initializer.p)),
            LAMBDA condition :
          Try(consume_kind(condition.p, "Semicolon", "Expect ';' after loop condition."),
              LAMBDA s :
            Try(IF check(s.p, "RightParenthesis") THEN PR(s.p, Ok(ENoOp))
                ELSE AsExpression(handle_expression(s.p)),
                LAMBDA increment :
              Try(consume_kind(increment.p, "RightParenthesis",
                               "Expect ')' after for clauses."),
                  LAMBDA r :
                Try(handle_statement(r.p), LAMBDA body :
                  for_desugaring(body.p, initializer.r.v, condition.r.v,
                                 increment.r.v, body.r.v))))))))

handle_statement(p) ==
    CASE match_kinds(p, {"For"}).matched -> handle_for_statement(advance(p))
      [] match_kinds(p, {"If"}).matched -> handle_if_statement(advance(p))
      [] match_kinds(p, {"Print"}).matched -> handle_print_statement(advance(p))
      [] match_kinds(p, {"Return"}).matched -> handle_return_statement(advance(p))
      [] match_kinds(p, {"While"}).matched -> handle_while_statement(advance(p))
      [] match_kinds(p, {"LeftBrace"}).matched ->
            Try(handle_statements_block(advance(p)), LAMBDA statements :
              PR(statements.p, Ok(OpStatement(SBlock(statements.r.v)))))
      [] OTHER -> handle_expression_statement(p)

handle_statements_block(p) ==
    Try(block_loop(p, <<>>), LAMBDA statements :
      Try(consume_kind(statements.p, "RightBrace", "Expect '}' after block."), LAMBDA r :
        PR(r.p, Ok(statements.r.v))))

\* the loop of handle_statements_block
block_loop(p, statements) ==
    IF ~check(p, "RightBrace") /\ ~is_at_end(p)
    THEN Try(AsStatement(handle_declaration(p)), LAMBDA statement :
           block_loop(statement.p, Append(statements, statement.r.v)))
    ELSE PR(p, Ok(statements))

\* the closure of handle_declaration
inner_parsing(p) ==
    CASE match_kinds(p, {"Class"}).matched -> handle_class_declaration(advance(p))
      [] match_kinds(p, {"Fun"}).matched ->
            handle_function_declaration(advance(p), "function")
      [] match_kinds(p, {"Var"}).matched -> handle_variable_declaration(advance(p))
      [] OTHER -> handle_statement(p)

\* an Err of the closure is printed after synchronize() and becomes Invalid;
\* reported keeps, with each printed error, the index of the token it was
\* met at and the index parsing resumes from
handle_declaration(p) ==
    Bind(inner_parsing(p), LAMBDA declaration :
      IF declaration.r.k = "ok" THEN declaration
      ELSE PR([synchronize(declaration.p) EXCEPT
                  !.reported = Append(@, [error |-> declaration.r.e,
                                          at |-> declaration.p.current,
                                          resumed |-> synchronize(declaration.p).current])],
              Ok(OpInvalid)))

\* the loop of parse
RECURSIVE parse_loop(_, _)
parse_loop(p, operations) ==
    IF is_at_end(p) THEN PR(p, Ok(operations))
    ELSE Try(handle_declaration(p), LAMBDA operation :
           parse_loop(operation.p, Append(operations, operation.r.v)))

\* Parser::parse
parse(p) == parse_loop(p, <<>>)

\* LoxInterpreter::parse on the tokens of the source
interpreter_parse(tokens) == parse(from_tokens(tokens))

(***************************************************************************)
(* Inputs: the programs handed to interpret(), as lists of operations.     *)
(***************************************************************************)
Num(n) == Literal(LNumber(n))
Str(x) == Literal(LString(x))
True == Literal(LTrue)
False == Literal(LFalse)
Fun(n, ps, b) == OpStatement(SFunction(n, ps, b))
Class(n, sup, ms) == OpStatement(SClass(n, sup, ms))
Var(n, x) == OpStatement(SVariable(n, x))
Show(x) == OpStatement(SPrint(x))
Do(x) == OpStatement(SExpression(x))
V(n) == Variable(n)
Call0(c) == CallE(c, <<>>)
Call1(c, a) == CallE(c, <<a>>)

\* fun f() {}  fun outer() { fun inner() {} return inner(); }
\* print f();  print outer();
PFallThrough ==
    << Fun("f", <<>>, <<>>),
       Fun("outer", <<>>, << SFunction("inner", <<>>, <<>>), SReturn(Call0(V("inner"))) >>),
       Show(Call0(V("f"))),
       Show(Call0(V("outer"))) >>

\* class M { m() {} }  print M().m();
PMethodFallThrough ==
    << Class("M", ENoOp, << SFunction("m", <<>>, <<>>) >>),
       Show(Call0(Get(Call0(V("M")), "m"))) >>

\* fun deep(x) { while (true) { if (true) { { return x; } } } }
\* class R { init() { while (true) { return; } } }
\* fun bad() { while (true) { if (true) { print nope; } } }
\* print deep(1);  R();  bad();
PDeepReturn ==
    << Fun("deep", <<"x">>,
           << SWhile(True, SBlock(<< SIf(True, SBlock(<< SBlock(<< SReturn(V("x")) >>) >>),
                                         SNoOp) >>)) >>),
       Class("R", ENoOp, << SFunction("init", <<>>,
                               << SWhile(True, SBlock(<< SReturn(ENoOp) >>)) >>) >>),
       Fun("bad", <<>>, << SWhile(True, SBlock(<< SIf(True, SPrint(V("nope")), SNoOp) >>)) >>),
       Show(Call1(V("deep"), Num(1))),
       Do(Call0(V("R"))),
       Do(Call0(V("bad"))) >>

\* class P { init(x) { this.x = x; } }  var p = P(1);  print p.x;
PInit ==
    << Class("P", ENoOp, << SFunction("init", <<"x">>,
                               << SExpression(Set(This, "x", V("x"))) >>) >>),
       Var("p", Call1(V("P"), Num(1))),
       Show(Get(V("p"), "x")) >>

\* class Q { init() { return; } }  var q = Q();  print q;  q.init();
PInitReturn ==
    << Class("Q", ENoOp, << SFunction("init", <<>>, << SReturn(ENoOp) >>) >>),
       Var("q", Call0(V("Q"))),
       Show(V("q")),
       Do(Call0(Get(V("q"), "init"))) >>

\* class A { m() { return "A"; } }  print A().m();  print A(1);
PNoInit ==
    << Class("A", ENoOp, << SFunction("m", <<>>, << SReturn(Str("A")) >>) >>),
       Show(Call0(Get(Call0(V("A")), "m"))),
       Show(Call1(V("A"), Num(1))) >>

\* class K { init(x) {} }  K();
PClassArity ==
    << Class("K", ENoOp, << SFunction("init", <<"x">>, <<>>) >>),
       Do(Call0(V("K"))) >>

\* var a = "global";
\* { fun showA() { print a; return; }  showA();  var a = "block";  showA(); }
PClosure ==
    << Var("a", Str("global")),
       OpStatement(SBlock(<< SFunction("showA", <<>>, << SPrint(V("a")), SReturn(ENoOp) >>),
                             SExpression(Call0(V("showA"))),
                             SVariable("a", Str("block")),
                             SExpression(Call0(V("showA"))) >>)) >>

\* fun mk() { var i = 0; fun c() { i = i + 1; return i; } return c; }
\* var c = mk();  print c();  print c();
PCounter ==
    << Fun("mk", <<>>,
           << SVariable("i", Num(0)),
              SFunction("c", <<>>, << SExpression(Assign("i", Binary(V("i"), "+", Num(1)))),
                                      SReturn(V("i")) >>),
              SReturn(V("c")) >>),
       Var("c", Call0(V("mk"))),
       Show(Call0(V("c"))),
       Show(Call0(V("c"))) >>

\* print nil();
PCallNil == << Show(Call0(Literal(LNil))) >>

\* fun pr() { print "side"; return 1; }  "abc"(pr());
PCallString ==
    << Fun("pr", <<>>, << SPrint(Str("side")), SReturn(Num(1)) >>),
       Do(Call1(Str("abc"), Call0(V("pr")))) >>

\* 1(nope);
PCallNumber == << Do(Call1(Num(1), V("nope"))) >>

\* class F { x() { return "method"; } }
\* var o = F();  print o.x();  o.x = 1;  o.y = 2;  print o.y;  print o.x;  print o.z;
PField ==
    << Class("F", ENoOp, << SFunction("x", <<>>, << SReturn(Str("method")) >>) >>),
       Var("o", Call0(V("F"))),
       Show(Call0(Get(V("o"), "x"))),
       Do(Set(V("o"), "x", Num(1))),
       Do(Set(V("o"), "y", Num(2))),
       Show(Get(V("o"), "y")),
       Show(Get(V("o"), "x")),
       Show(Get(V("o"), "z")) >>

\* class Base { m() { return "Base"; } }  class Derived < Base { n() { return "n"; } }
\* print Derived().n();  print Derived().m();
\* (built through the AST types: the parser yields no superclass)
PInherit ==
    << Class("Base", ENoOp, << SFunction("m", <<>>, << SReturn(Str("Base")) >>) >>),
       Class("Derived", V("Base"), << SFunction("n", <<>>, << SReturn(Str("n")) >>) >>),
       Show(Call0(Get(Call0(V("Derived")), "n"))),
       Show(Call0(Get(Call0(V("Derived")), "m"))) >>

\* fun h() {}  class E {}  var i = E();
\* print 1 == 1;  print "a" != "b";  print E() == E();  print h == h;
\* print E == E;  print i != i;
PEquality ==
    << Fun("h", <<>>, <<>>),
       Class("E", ENoOp, <<>>),
       Var("i", Call0(V("E"))),
       Show(Binary(Num(1), "==", Num(1))),
       Show(Binary(Str("a"), "!=", Str("b"))),
       Show(Binary(Call0(V("E")), "==", Call0(V("E")))),
       Show(Binary(V("h"), "==", V("h"))),
       Show(Binary(V("E"), "==", V("E"))),
       Show(Binary(V("i"), "!=", V("i"))) >>

\* print clock();  clock(1);
PClock == << Show(Call0(V("clock"))), Do(Call1(V("clock"), Num(1))) >>

\* return 1;
PTopLevelReturn == << OpStatement(SReturn(Num(1))) >>

\* print this;
PThis == << Show(This) >>

\* class S { m() { super.m(); } }
PSuper == << Class("S", ENoOp, << SFunction("m", <<>>,
                                    << SExpression(Call0(Super("m"))) >>) >>) >>

\* fun dup() { var d = 1; var d = 2; }
PDuplicate == << Fun("dup", <<>>, << SVariable("d", Num(1)), SVariable("d", Num(2)) >>) >>

\* var n = 0;  while (n < 2) { n = n + 1; }
\* if (0) print "truthy"; else print "falsy";
\* print !"";  print nil or "x";  print false and 1;  print -n;
PTruthy ==
    << Var("n", Num(0)),
       OpStatement(SWhile(Binary(V("n"), "<", Num(2)),
                          SBlock(<< SExpression(Assign("n", Binary(V("n"), "+", Num(1)))) >>))),
       OpStatement(SIf(Num(0), SPrint(Str("truthy")), SPrint(Str("falsy")))),
       Show(Unary("!", Str(""))),
       Show(Logical(Literal(LNil), "or", Str("x"))),
       Show(Logical(False, "and", Num(1))),
       Show(Unary("-", Group(V("n")))) >>

\* fun g(a) { print a; }  g();
PArity ==
    << Fun("g", <<"a">>, << SPrint(V("a")) >>),
       Do(Call0(V("g"))) >>

\* print C().m();  print D;
PUseSources ==
    << Show(Call0(Get(Call0(V("C")), "m"))),
       Show(V("D")) >>

\* class S {}  class T { f() { return; } }
\* fun put(p, v) { p.f = v; return; }
\* var a = S();  var b = a;  a.f = 1;  print b.f;
\* put(a, 2);  print b.f;
\* var h = S();  h.o = b;  h.o.f = 3;  print a.f;
\* var t = T();  var u = t;  t.f = 4;  print u.f;
PShared ==
    << Class("S", ENoOp, <<>>),
       Class("T", ENoOp, << SFunction("f", <<>>, << SReturn(ENoOp) >>) >>),
       Fun("put", <<"p", "v">>, << SExpression(Set(V("p"), "f", V("v"))), SReturn(ENoOp) >>),
       Var("a", Call0(V("S"))),
       Var("b", V("a")),
       Do(Set(V("a"), "f", Num(1))),
       Show(Get(V("b"), "f")),
       Do(CallE(V("put"), << V("a"), Num(2) >>)),
       Show(Get(V("b"), "f")),
       Var("h", Call0(V("S"))),
       Do(Set(V("h"), "o", V("b"))),
       Do(Set(Get(V("h"), "o"), "f", Num(3))),
       Show(Get(V("a"), "f")),
       Var("t", Call0(V("T"))),
       Var("u", V("t")),
       Do(Set(V("t"), "f", Num(4))),
       Show(Get(V("u"), "f")) >>

\* class B { who() { return this.tag; } }
\* var x = B();  var y = B();  x.tag = "x";  y.tag = "y";
\* var m1 = x.who;  var m2 = y.who;  var m3 = x.who;
\* print m1();  print m2();  print m3();  print m1();
PBind ==
    << Class("B", ENoOp, << SFunction("who", <<>>, << SReturn(Get(This, "tag")) >>) >>),
       Var("x", Call0(V("B"))),
       Var("y", Call0(V("B"))),
       Do(Set(V("x"), "tag", Str("x"))),
       Do(Set(V("y"), "tag", Str("y"))),
       Var("m1", Get(V("x"), "who")),
       Var("m2", Get(V("y"), "who")),
       Var("m3", Get(V("x"), "who")),
       Show(Call0(V("m1"))),
       Show(Call0(V("m2"))),
       Show(Call0(V("m3"))),
       Show(Call0(V("m1"))) >>

\* fun side(v) { print "side"; z = z + 1; return v; }  var z = 0;
\* print true or side(1);  print nil and side(2);  print 0 or (z = 5);
\* print false or side(3);  print "" and side(nil);  print nil or nope;
PLogical ==
    << Fun("side", <<"v">>,
           << SPrint(Str("side")), SExpression(Assign("z", Binary(V("z"), "+", Num(1)))),
              SReturn(V("v")) >>),
       Var("z", Num(0)),
       Show(Logical(True, "or", Call1(V("side"), Num(1)))),
       Show(Logical(Literal(LNil), "and", Call1(V("side"), Num(2)))),
       Show(Logical(Num(0), "or", Group(Assign("z", Num(5))))),
       Show(V("z")),
       Show(Logical(False, "or", Call1(V("side"), Num(3)))),
       Show(Logical(Str(""), "and", Call1(V("side"), Literal(LNil)))),
       Show(V("z")),
       Show(Logical(Literal(LNil), "or", V("nope"))) >>

\* var a = 1;  var b = 1;
\* { var a = 2;  a = 3;  var c = 4;  b = 5;  print a; }  print a;  print b;
\* { b = 6;  var b = 7;  print b; }  print b;
\* fun r() { { var a = 9;  return a; } }  print r();  print a;
\* { var a = 8;  print nope; }
PBlock ==
    << Var("a", Num(1)),
       Var("b", Num(1)),
       OpStatement(SBlock(<< SVariable("a", Num(2)), SExpression(Assign("a", Num(3))),
                             SVariable("c", Num(4)), SExpression(Assign("b", Num(5))),
                             SPrint(V("a")) >>)),
       Show(V("a")),
       Show(V("b")),
       OpStatement(SBlock(<< SExpression(Assign("b", Num(6))), SVariable("b", Num(7)),
                             SPrint(V("b")) >>)),
       Show(V("b")),
       Fun("r", <<>>, << SBlock(<< SVariable("a", Num(9)), SReturn(V("a")) >>) >>),
       Show(Call0(V("r"))),
       Show(V("a")),
       OpStatement(SBlock(<< SVariable("a", Num(8)), SPrint(V("nope")) >>)) >>

\* var x = 1;  x = 2;  print x;  print x = 3;  { x = 4;  var x = 0;  x = 7; }
\* print x;  fun f(x) { x = 5;  w = 6;  return; }  var w = 0;  f(0);
\* print x;  print w;  y = 1;
PAssign ==
    << Var("x", Num(1)),
       Do(Assign("x", Num(2))),
       Show(V("x")),
       Show(Assign("x", Num(3))),
       OpStatement(SBlock(<< SExpression(Assign("x", Num(4))), SVariable("x", Num(0)),
                             SExpression(Assign("x", Num(7))) >>)),
       Show(V("x")),
       Fun("f", <<"x">>, << SExpression(Assign("x", Num(5))),
                           SExpression(Assign("w", Num(6))), SReturn(ENoOp) >>),
       Var("w", Num(0)),
       Do(Call1(V("f"), Num(0))),
       Show(V("x")),
       Show(V("w")),
       Do(Assign("y", Num(1))) >>

\* print y;
PReadY == << Show(V("y")) >>

\* print "early";  var g = 1;  { var d = 1;  var d = 2; }
PResolveLate ==
    << Show(Str("early")),
       Var("g", Num(1)),
       OpStatement(SBlock(<< SVariable("d", Num(1)), SVariable("d", Num(2)) >>)) >>

\* var a = 1;  var a = a;  print a;  { var b = a;  var c = b;  var a = a; }
POwnInitializer ==
    << Var("a", Num(1)),
       Var("a", V("a")),
       Show(V("a")),
       OpStatement(SBlock(<< SVariable("b", V("a")), SVariable("c", V("b")),
                             SVariable("a", V("a")) >>)) >>

Programs ==
    << PFallThrough, PMethodFallThrough, PDeepReturn, PInit, PInitReturn, PNoInit,
       PClassArity, PClosure, PCounter, PCallNil, PCallString, PCallNumber, PField,
       PInherit, PEquality, PClock, PTopLevelReturn, PThis, PSuper, PDuplicate,
       PTruthy, PArity, PUseSources, PShared, PBind, PLogical,
       PBlock, PAssign, PReadY, PResolveLate, POwnInitializer >>

\* class C { m() {} }      class D < A { }
ClassSources ==
    << [name |-> "C", superclass |-> "",
        tokens |-> Lex(<< "class", "C", "{", "m", "(", ")", "{", "}", "}" >>)],
       [name |-> "D", superclass |-> "A",
        tokens |-> Lex(<< "class", "D", "<", "A", "{", "}" >>)] >>

\* the seconds clock() can read
Times == {MaxNum, MaxNum + 1}

(***************************************************************************)
(* The state machine of one LoxTreeWalkInterpreter.                        *)
(***************************************************************************)
NoProbe == [phase |-> "none"]

\* LoxTreeWalkInterpreter::new: a fresh resolver around a fresh evaluator
\* whose globals hold the clock native
InitInterpreter ==
    /\ envs = << [values |-> ("clock" :> Ref(1)), outer |-> 0] >>
    /\ objs = << build_lox_clock_builtin >>
    /\ out = <<>>
    /\ locals = [x \in {} |-> 0]
    /\ resolver = [scopes |-> <<>>, current_class_kind |-> "None",
                   current_function_kind |-> "None", visited |-> <<>>,
                   log |-> <<>>]
    /\ result = Ok(Nil)
    /\ last = [kind |-> "none"]
    /\ trace = <<>>
    /\ nops = 0

NoParser == [phase |-> "none"]

NoVM == [phase |-> "none"]

Init == InitInterpreter /\ probe = NoProbe /\ parser = NoParser /\ vm = NoVM

\* the evaluation state at the start of a call of interpret
StartState(now) ==
    [envs |-> envs, objs |-> objs, out |-> out, locals |-> locals, now |-> now,
     trace |-> <<>>, cur |-> 0, mark |-> [out |-> Len(out), calls |-> 0],
     ncalls |-> 0, nbodies |-> 0]

\* a panic ends the process
Alive == result.k # "panic"

\* the interpreter after a call of interpret whose outcome is x
Returned(x, input) ==
    /\ envs' = x.st.envs
    /\ objs' = x.st.objs
    /\ out' = x.st.out
    /\ locals' = x.st.locals
    /\ resolver' = x.rs
    /\ result' = x.r
    /\ last' = input
    /\ trace' = x.st.trace
    /\ nops' = nops + 1
    /\ UNCHANGED <<probe, parser, vm>>

Run(operations, now, input) ==
    Returned(interpret(resolver, operations, StartState(now)), input)

\* interpret(&operations) on a list of operations
Interpret ==
    /\ Alive
    /\ nops < MaxOps
    /\ \E i \in 1..Len(Programs), now \in Times :
          Run(Programs[i], now, [kind |-> "interpret", program |-> i])

\* as main.rs does: parse(source), then interpret, for a class declaration
InterpretSource ==
    /\ Alive
    /\ nops < MaxOps
    /\ \E i \in 1..Len(ClassSources), now \in Times :
          Run(interpreter_parse(ClassSources[i].tokens).r.v, now,
              [kind |-> "source", source |-> ClassSources[i],
               superclass_is_class |->
                   LET g == get(envs, globals, ClassSources[i].superclass)
                   IN g.k = "ok" /\ is_class(objs, g.v)])

Next == Interpret \/ InterpretSource

Spec == Init /\ [][Next]_vars

(***************************************************************************)
(* The parser on its own: a source is drawn at the start, LoxInterpreter's *)
(* parse is applied to its tokens, and the operations it returned are then *)
(* interpreted by a fresh interpreter.  parser.parsed is <<>> until parse  *)
(* has returned, then <<its outcome>>.                                     *)
(***************************************************************************)
MaxChunks == 2

\* declarations, well-formed and not, as lexemes
Chunks ==
    << << "print", "1", ";" >>,
       << "var", "x", "=", "2", ";" >>,
       << "{", "print", "x", ";", "}" >>,
       << "if", "(", "x", ")", "print", "1", ";", "else", "print", "2", ";" >>,
       << "fun", "f", "(", "a", ")", "{", "return", "a", ";", "}" >>,
       << "print", ";" >>,
       << "var", "=", "1", ";" >>,
       << "x", "=", "=", "3", ";" >>,
       << "print", "(", "1", ";" >>,
       << "1", "+" >>,
       << "fun", "(", ")", "{", "}" >>,
       << "{", "print", ";", "print", "1", ";", "}" >> >>

RECURSIVE Concatenated(_)
Concatenated(chunks) ==
    IF chunks = <<>> THEN <<>> ELSE Head(chunks) \o Concatenated(Tail(chunks))

NoFor == [kind |-> "none", init |-> <<>>, cond |-> <<>>, inc |-> <<>>, body |-> <<>>,
          from |-> 0, to |-> 0]

\* the sources made of one to MaxChunks declarations
ChunkSources ==
    {[lexemes |-> Concatenated([j \in DOMAIN c |-> Chunks[c[j]]]), for |-> NoFor] :
        c \in UNION {[1..n -> 1..Len(Chunks)] : n \in 1..MaxChunks}}

\* for (var i = from; i < to; i = i + 1) body, where body prints i; without
\* a condition the body also stops the loop, by an error, once i + 1 is `to`
ForLoop(from, to, conditional, braces) ==
    [kind |-> "for",
     init |-> << "var", "i", "=", ToString(from), ";" >>,
     cond |-> IF conditional THEN << "i", "<", ToString(to) >> ELSE <<>>,
     inc |-> << "i", "=", "i", "+", "1" >>,
     body |-> IF conditional
              THEN (IF braces THEN << "{", "print", "i", ";", "}" >>
                    ELSE << "print", "i", ";" >>)
              ELSE << "{", "print", "i", ";",
                      "if", "(", "i", "+", "1", ">=", ToString(to), ")", "print", "nope", ";",
                      "}" >>,
     from |-> from, to |-> to]

ForSource(f) ==
    [lexemes |-> << "for", "(" >> \o f.init \o f.cond \o << ";" >> \o f.inc \o << ")" >>
                     \o f.body,
     for |-> f]

ForSources ==
    {ForSource(ForLoop(from, to, conditional, braces)) :
        from \in 0..1, to \in 0..3, conditional \in BOOLEAN, braces \in BOOLEAN}

Sources == ChunkSources \cup ForSources

InitParser ==
    /\ InitInterpreter
    /\ probe = NoProbe
    /\ vm = NoVM
    /\ parser \in {[tokens |-> Lex(x.lexemes), for |-> x.for, parsed |-> <<>>] :
                      x \in Sources}

\* interpreter.parse(source)
Parse ==
    /\ parser.parsed = <<>>
    /\ parser' = [parser EXCEPT !.parsed = <<interpreter_parse(parser.tokens)>>]
    /\ UNCHANGED <<interpreter_vars, probe, vm>>

\* interpreter.interpret(&operations) on what parse returned
InterpretParsed ==
    /\ parser.parsed # <<>>
    /\ parser.parsed[1].r.k = "ok"
    /\ nops = 0
    /\ \E now \in Times :
          Run(parser.parsed[1].r.v, now, [kind |-> "parsed"])

NextParser == Parse \/ InterpretParsed

SpecParser == InitParser /\ [][NextParser]_vars

\* the outcome of parse, once it has returned
Parsed == parser.parsed[1]

\* index q is a place where skipping stops: the end of the tokens, just after
\* a semicolon, or just before one of the statement keywords
SynchronizationPoint(tokens, q) ==
    \/ tokens[q + 1].kind = "EndOfFile"
    \/ q >= 1 /\ tokens[q].kind = "Semicolon"
    \/ tokens[q + 1].kind \in SynchronizationKinds

\* the first such place after the token the error was met at
FirstSynchronizationPoint(tokens, at) ==
    IF tokens[at + 1].kind = "EndOfFile" THEN at
    ELSE CHOOSE q \in (at + 1)..(Len(tokens) - 1) :
             /\ SynchronizationPoint(tokens, q)
             /\ \A r \in (at + 1)..(q - 1) : ~SynchronizationPoint(tokens, r)

\* the declaration that starts at index q of the tokens, parsed on its own
DeclarationAt(tokens, q) ==
    inner_parsing(from_tokens(SubSeq(tokens, q + 1, Len(tokens))))

Invalids(operations) == {j \in DOMAIN operations : operations[j] = OpInvalid}

\* C17: when parsing a declaration fails, parse still returns Ok, every
\* reported error comes with one Invalid operation, parsing resumes at the
\* first place after the error that follows a semicolon or precedes one of
\* class fun var for if while print return, and a well-formed declaration
\* starting there is parsed without any further error being met inside it.
C17_RecoversAtSynchronizationPoint ==
    parser.parsed # <<>> =>
        LET reported == Parsed.p.reported
            tokens == parser.tokens
        IN /\ Parsed.r.k = "ok"
           /\ Cardinality(Invalids(Parsed.r.v)) = Len(reported)
           /\ \A j \in DOMAIN reported :
                 /\ reported[j].resumed = FirstSynchronizationPoint(tokens, reported[j].at)
                 /\ LET declaration == DeclarationAt(tokens, reported[j].resumed)
                    IN declaration.r.k = "ok" =>
                         \A k \in DOMAIN reported :
                            ~ /\ reported[k].at >= reported[j].resumed
                              /\ reported[k].at < reported[j].resumed + declaration.p.current

\* the same, for the sources whose errors are all met outside of any block
C17_TopLevel ==
    (parser.parsed # <<>> /\ \A j \in DOMAIN parser.tokens : parser.tokens[j].kind # "LeftBrace")
        => C17_RecoversAtSynchronizationPoint

\* the statement a declaration parses to on its own
StatementOf(lexemes) == interpreter_parse(Lex(lexemes)).r.v[1].statement

\* the expression some lexemes parse to on their own
ExpressionOf(lexemes) == StatementOf(lexemes \o << ";" >>).expression

\* the lines a loop prints that starts at `from` and goes on while below `to`
CountedFrom(from, to) ==
    [j \in 1..(IF to > from THEN to - from ELSE 0) |-> ToString(from + j - 1)]

\* C18: for (init; cond; inc) body parses to
\* Block[init, While(cond, Block[body, Expression(inc)])], a missing cond
\* being the literal true; interpreted, the body runs before the increment on
\* every iteration, so a loop counting from `from` prints `from` and up, and
\* the variable of the initializer is gone once the loop has ended.
C18_ForDesugaring ==
    (parser.for.kind = "for" /\ parser.parsed # <<>>) =>
        LET f == parser.for
            condition == IF f.cond = <<>> THEN Literal(LTrue) ELSE ExpressionOf(f.cond)
            last_printed == IF f.to - 1 > f.from THEN f.to - 1 ELSE f.from
        IN /\ Parsed.r = Ok(<< OpStatement(SBlock(<<
                   StatementOf(f.init),
                   SWhile(condition,
                          SBlock(<< StatementOf(f.body),
                                    SExpression(ExpressionOf(f.inc)) >>)) >>)) >>)
           /\ Parsed.p.reported = <<>>
           /\ nops = 1 =>
                 /\ get(envs, globals, "i").k = "err"
                 /\ IF f.cond # <<>>
                    THEN result.k = "ok" /\ out = CountedFrom(f.from, f.to)
                    ELSE result.k = "err" /\ out = CountedFrom(f.from, last_printed + 1)

\* for (var i = 1; i < 3; i = i + 1) print i; was parsed and interpreted:
\* it printed 1 and 2 and returned
C18_Witness ==
    /\ parser.for.kind = "for"
    /\ parser.for.cond = << "i", "<", "3" >>
    /\ parser.for.from = 1
    /\ parser.parsed # <<>>
    /\ nops = 1
    /\ out = << "1", "2" >>
    /\ result.k = "ok"

(***************************************************************************)
(* The bytecode lexer (src/bytecode/lexer.rs).  A source is a sequence of  *)
(* characters; the lexer is [start, current, line_number], its indices     *)
(* counted from 0.  Every operation returns [lx, r]: the lexer it leaves   *)
(* and Ok(value) or Panic(msg).                                        *)
(***************************************************************************)
LR(lx, r) == [lx |-> lx, r |-> r]

\* LoxBytecodeLexer::default
LoxBytecodeLexer_default == [start |-> 0, current |-> 0, line_number |-> 0]

BytecodeToken(kind, start, length, line_number, error_message) ==
    [kind |-> kind, start |-> start, length |-> length, line_number |-> line_number,
     error_message |-> error_message]

\* the messages of the error tokens, with their lengths in bytes
UnexpectedCharacter == [text |-> "Unexpected character.", len |-> 21]
UnterminatedString == [text |-> "Unterminated string.", len |-> 20]

lexer_is_digit(char) == char \in {"0", "1", "2", "3", "4", "5", "6", "7", "8", "9"}

lexer_is_at_end(source, lx) == lx.current >= Len(source)

\* source.chars().nth(self.current).expect(..)
lexer_peek(source, lx) ==
    IF lx.current < Len(source) THEN Ok(source[lx.current + 1])
    ELSE Panic("compiler expects a character at current index")

\* <<the character>>, or <<>> for None
lexer_peek_next(source, lx) ==
    IF lx.current + 1 < Len(source) THEN << source[lx.current + 2] >> ELSE <<>>

lexer_advance(source, lx) ==
    IF lx.current < Len(source)
    THEN LR([lx EXCEPT !.current = @ + 1], Ok(source[lx.current + 1]))
    ELSE LR([lx EXCEPT !.current = @ + 1], Panic("compiler expects a character"))

\* [matched, lx]
match_char(source, lx, expected) ==
    IF lexer_is_at_end(source, lx) \/ lexer_peek(source, lx) # Ok(expected)
    THEN [matched |-> FALSE, lx |-> lx]
    ELSE [matched |-> TRUE, lx |-> [lx EXCEPT !.current = @ + 1]]

build_token(lx, kind) ==
    BytecodeToken(kind, lx.start, lx.current - lx.start, lx.line_number, "")

build_token_error(lx, msg) ==
    BytecodeToken("Error", lx.start, msg.len, lx.line_number, msg.text)

\* while self.peek(source) != '\n' && !self.is_at_end(source) { advance }
RECURSIVE skip_comment(_, _)
skip_comment(source, lx) ==
    Bind(lexer_peek(source, lx), LAMBDA c :
      IF c.k # "ok" THEN LR(lx, c)
      ELSE IF c.v # "\n" /\ ~lexer_is_at_end(source, lx)
      THEN Try(lexer_advance(source, lx), LAMBDA a : skip_comment(source, a.lx))
      ELSE LR(lx, Ok("")))

\* Skip over whitespace, line breaks and comments.
RECURSIVE skip_whitespace(_, _)
skip_whitespace(source, lx) ==
    Bind(lexer_peek(source, lx), LAMBDA c :
      IF c.k # "ok" THEN LR(lx, c)
      ELSE CASE c.v \in {" ", "\r", "\t"} ->
                  Try(lexer_advance(source, lx), LAMBDA a : skip_whitespace(source, a.lx))
             [] c.v = "\n" ->
                  Try(lexer_advance(source, [lx EXCEPT !.line_number = @ + 1]),
                      LAMBDA a : skip_whitespace(source, a.lx))
             [] c.v = "/" ->
                  IF lexer_peek_next(source, lx) = << "/" >>
                  THEN Try(skip_comment(source, lx), LAMBDA s : skip_whitespace(source, s.lx))
                  ELSE LR(lx, Ok(""))
             [] OTHER -> LR(lx, Ok("")))

\* while Self::is_digit(self.peek(source)) { advance }
RECURSIVE skip_digits(_, _)
skip_digits(source, lx) ==
    Bind(lexer_peek(source, lx), LAMBDA c :
      IF c.k # "ok" THEN LR(lx, c)
      ELSE IF lexer_is_digit(c.v)
      THEN Try(lexer_advance(source, lx), LAMBDA a : skip_digits(source, a.lx))
      ELSE LR(lx, Ok("")))

lexer_handle_number(source, lx) ==
    Try(skip_digits(source, lx), LAMBDA whole :
      IF lexer_peek(source, whole.lx) # Ok(".")
      THEN LR(whole.lx, Ok(build_token(whole.lx, "Number")))
      ELSE IF lexer_peek_next(source, whole.lx) = <<>>
      THEN LR(whole.lx,
              Panic("compiler expects a digit after number fractional separator '.'"))
      ELSE IF lexer_is_digit(lexer_peek_next(source, whole.lx)[1])
      THEN Try(lexer_advance(source, whole.lx), LAMBDA dot :
             Try(skip_digits(source, dot.lx), LAMBDA fraction :
               LR(fraction.lx, Ok(build_token(fraction.lx, "Number")))))
      ELSE LR(whole.lx, Ok(build_token(whole.lx, "Number"))))

\* while self.peek(source) != '"' && !self.is_at_end(source) { .. advance }
RECURSIVE string_loop(_, _)
string_loop(source, lx) ==
    Bind(lexer_peek(source, lx), LAMBDA c :
      IF c.k # "ok" THEN LR(lx, c)
      ELSE IF c.v # "\"" /\ ~lexer_is_at_end(source, lx)
      THEN Try(lexer_advance(source,
                             IF c.v = "\n" THEN [lx EXCEPT !.line_number = @ + 1] ELSE lx),
               LAMBDA a : string_loop(source, a.lx))
      ELSE LR(lx, Ok("")))

lexer_handle_string(source, lx) ==
    Try(string_loop(source, lx), LAMBDA s :
      IF lexer_is_at_end(source, s.lx)
      THEN LR(s.lx, Ok(build_token_error(s.lx, UnterminatedString)))
      ELSE Try(lexer_advance(source, s.lx), LAMBDA a :
             LR(a.lx, Ok(build_token(a.lx, "String")))))

SingleCharacterTokens ==
    [c \in {"(", ")", "{", "}", ";", ",", ".", "-", "+", "/", "*"} |->
        CASE c = "(" -> "LeftParenthesis" [] c = ")" -> "RightParenthesis"
          [] c = "{" -> "LeftBrace" [] c = "}" -> "RightBrace"
          [] c = ";" -> "Semicolon" [] c = "," -> "Comma" [] c = "." -> "Dot"
          [] c = "-" -> "Minus" [] c = "+" -> "Plus" [] c = "/" -> "Slash"
          [] c = "*" -> "Star"]

\* the tokens of one character that a following '=' makes another token
WithEqual ==
    [c \in {"!", "=", "<", ">"} |->
        CASE c = "!" -> << "Bang", "BangEqual" >>
          [] c = "=" -> << "Equal", "EqualEqual" >>
          [] c = "<" -> << "Less", "LessEqual" >>
          [] c = ">" -> << "Greater", "GreaterEqual" >>]

\* LoxBytecodeLexer::scan_token; letters have no arm of their own in its
\* match, they fall to the last one
lexer_scan_token(source, lx) ==
    Try(skip_whitespace(source, lx), LAMBDA skipped :
      Bind([skipped.lx EXCEPT !.start = skipped.lx.current], LAMBDA at :
        IF lexer_is_at_end(source, at) THEN LR(at, Ok(build_token(at, "EndOfFile")))
        ELSE Try(lexer_advance(source, at), LAMBDA a :
               CASE lexer_is_digit(a.r.v) -> lexer_handle_number(source, a.lx)
                 [] a.r.v \in DOMAIN SingleCharacterTokens ->
                      LR(a.lx, Ok(build_token(a.lx, SingleCharacterTokens[a.r.v])))
                 [] a.r.v \in DOMAIN WithEqual ->
                      Bind(match_char(source, a.lx, "="), LAMBDA m :
                        LR(m.lx, Ok(build_token(m.lx, IF m.matched THEN WithEqual[a.r.v][2]
                                                      ELSE WithEqual[a.r.v][1]))))
                 [] a.r.v = "\"" -> lexer_handle_string(source, a.lx)
                 [] OTHER -> LR(a.lx, Ok(build_token_error(a.lx, UnexpectedCharacter))))))

\* loop { let token = self.scan_token(source); }: the loop has no exit but
\* a panic of scan_token
RECURSIVE lexer_compile_loop(_, _)
lexer_compile_loop(source, lx) ==
    Try(lexer_scan_token(source, lx), LAMBDA token : lexer_compile_loop(source, token.lx))

\* LoxBytecodeLexer::compile
lexer_compile(source, lx) ==
    lexer_compile_loop(source, [lx EXCEPT !.line_number = 0])

(***************************************************************************)
(* The bytecode chunk (src/bytecode.rs) and compiler                       *)
(* (src/bytecode/compiler.rs).  The compiler is [parser, lexer, chunk,     *)
(* printed]: the chunk and the lexer it is handed on every call are kept   *)
(* with it, and printed is what it wrote to the standard output about      *)
(* errors.  Every operation returns [c, r].                                *)
(***************************************************************************)
CR(c, r) == [c |-> c, r |-> r]

Opcode(name) == [op |-> name]
Value(index) == [op |-> "Value", value |-> index]

\* LoxBytecodeChunk::default
LoxBytecodeChunk_default == [code |-> <<>>, lines |-> <<>>, constants |-> <<>>]

\* LoxBytecodeChunk::append
chunk_append(chunk, bytecode, line_number) ==
    [chunk EXCEPT !.code = Append(@, bytecode), !.lines = Append(@, line_number)]

\* LoxBytecodeChunk::add_constant: [chunk, index]
add_constant(chunk, value) ==
    [chunk |-> [chunk EXCEPT !.constants = Append(@, value)],
     index |-> Len(chunk.constants)]

\* LoxBytecodeOperatorPrecedence
Precedence ==
    [None |-> 0, Assignment |-> 1, Or |-> 2, And |-> 3, Equality |-> 4, Comparison |-> 5,
     Term |-> 6, Factor |-> 7, Unary |-> 8, Call |-> 9, Primary |-> 10]

ParseRule(prefix, infix, precedence) ==
    [prefix |-> prefix, infix |-> infix, precedence |-> precedence]

\* the parsing rules LoxBytecodeCompiler::new inserts, one for every kind
get_rule(kind) ==
    CASE kind = "LeftParenthesis" -> ParseRule("handle_grouping", "", Precedence.None)
      [] kind = "Minus" -> ParseRule("handle_unary", "handle_binary", Precedence.Term)
      [] kind = "Plus" -> ParseRule("", "handle_binary", Precedence.Term)
      [] kind \in {"Slash", "Star"} -> ParseRule("", "handle_binary", Precedence.Factor)
      [] kind = "Bang" -> ParseRule("handle_unary", "", Precedence.None)
      [] kind \in {"BangEqual", "EqualEqual"} ->
            ParseRule("", "handle_binary", Precedence.Equality)
      [] kind \in {"Greater", "GreaterEqual", "Less", "LessEqual"} ->
            ParseRule("", "handle_binary", Precedence.Comparison)
      [] kind = "Number" -> ParseRule("handle_number", "", Precedence.None)
      [] kind \in {"False", "Nil", "True"} -> ParseRule("handle_literal", "", Precedence.None)
      [] OTHER -> ParseRule("", "", Precedence.None)

\* &source[self.start..self.start + self.length]
get_lexeme(token, source) ==
    IF token.start + token.length <= Len(source)
    THEN Ok(SubSeq(source, token.start + 1, token.start + token.length))
    ELSE Panic("byte index out of range")

\* the value of a number's lexeme, [whole, fraction]: that of its digits
\* before the '.', and the digits after it up to the last that is not 0
RECURSIVE DecimalValue(_)
DecimalValue(digits) ==
    IF digits = <<>> THEN 0
    ELSE 10 * DecimalValue(SubSeq(digits, 1, Len(digits) - 1))
         + (CHOOSE d \in 0..9 : ToString(d) = digits[Len(digits)])

RECURSIVE WithoutTrailingZeros(_)
WithoutTrailingZeros(digits) ==
    IF digits # <<>> /\ digits[Len(digits)] = "0"
    THEN WithoutTrailingZeros(SubSeq(digits, 1, Len(digits) - 1))
    ELSE digits

parse_f64(lexeme) ==
    LET dots == {j \in DOMAIN lexeme : lexeme[j] = "."}
        dot == IF dots = {} THEN Len(lexeme) + 1 ELSE CHOOSE j \in dots : TRUE
    IN [whole |-> DecimalValue(SubSeq(lexeme, 1, dot - 1)),
        fraction |-> WithoutTrailingZeros(SubSeq(lexeme, dot + 1, Len(lexeme)))]

\* error_at: nothing in panic mode, else the line printed and had_error set
error_at(c, token, source, msg) ==
    IF c.parser.panic_mode THEN CR(c, Ok(""))
    ELSE Bind(CASE token.kind = "EndOfFile" -> Ok(<< "at end" >>)
                [] token.kind = "Error" -> Ok(<<>>)
                [] OTHER -> get_lexeme(token, source),
              LAMBDA where :
                Bind([c EXCEPT !.parser.panic_mode = TRUE], LAMBDA panicking :
                  IF where.k # "ok" THEN CR(panicking, where)
                  ELSE CR([panicking EXCEPT
                              !.printed = Append(@, [line |-> token.line_number,
                                                     where |-> where.v,
                                                     message |-> msg]),
                              !.parser.had_error = TRUE],
                          Ok(""))))

error(c, msg, source) == error_at(c, c.parser.previous, source, msg)

error_at_current(c, msg, source) == error_at(c, c.parser.current, source, msg)

\* the loop of advance: scan until a token that is no Error token; for an
\* Error token the msg handed to error_at_current is its lexeme
RECURSIVE advance_loop(_, _)
advance_loop(c, source) ==
    Bind(lexer_scan_token(source, c.lexer), LAMBDA token :
      IF token.r.k # "ok" THEN CR([c EXCEPT !.lexer = token.lx], token.r)
      ELSE Bind([c EXCEPT !.lexer = token.lx, !.parser.current = token.r.v], LAMBDA scanned :
             IF token.r.v.kind # "Error" THEN CR(scanned, Ok(""))
             ELSE Bind(get_lexeme(token.r.v, source), LAMBDA lexeme :
                    IF lexeme.k # "ok" THEN CR(scanned, lexeme)
                    ELSE Try(error_at_current(scanned, lexeme.v, source),
                             LAMBDA reported : advance_loop(reported.c, source)))))

compiler_advance(c, source) ==
    advance_loop([c EXCEPT !.parser.previous = c.parser.current], source)

compiler_consume_kind(c, kind, source, msg) ==
    IF c.parser.current.kind = kind THEN compiler_advance(c, source)
    ELSE error_at_current(c, msg, source)

emit_byte(c, opcode) ==
    [c EXCEPT !.chunk = chunk_append(@, opcode, c.parser.previous.line_number)]

emit_bytes(c, first_byte, second_byte) == emit_byte(emit_byte(c, first_byte), second_byte)

emit_return(c) == emit_byte(c, Opcode("Return"))

u8_MAX == 255

\* [c, opcode]
build_constant(c, source, value) ==
    Bind(add_constant(c.chunk, value), LAMBDA added :
      Bind([c EXCEPT !.chunk = added.chunk], LAMBDA with :
        IF added.index > u8_MAX
        THEN Bind(error(with, "Too many constants in one chunk", source), LAMBDA e :
               [c |-> e.c, r |-> e.r, opcode |-> Value(0)])
        ELSE [c |-> with, r |-> Ok(""), opcode |-> Value(added.index)]))

emit_constant(c, source, value) ==
    Try(build_constant(c, source, value), LAMBDA built :
      CR(emit_bytes(built.c, Opcode("Constant"), built.opcode), Ok("")))

compiler_handle_number(c, source) ==
    Bind(get_lexeme(c.parser.previous, source), LAMBDA lexeme :
      IF lexeme.k # "ok" THEN CR(c, lexeme)
      ELSE emit_constant(c, source, BNumber(parse_f64(lexeme.v))))

handle_literal(c) ==
    CR(emit_byte(c, Opcode(c.parser.previous.kind)), Ok(""))

\* the instructions of a binary operator
BinaryOpcodes(operator_kind) ==
    CASE operator_kind = "BangEqual" -> << "Equal", "Not" >>
      [] operator_kind = "EqualEqual" -> << "Equal" >>
      [] operator_kind = "Greater" -> << "Greater" >>
      [] operator_kind = "GreaterEqual" -> << "Less", "Not" >>
      [] operator_kind = "Less" -> << "Less" >>
      [] operator_kind = "LessEqual" -> << "Greater", "Not" >>
      [] operator_kind = "Plus" -> << "Add" >>
      [] operator_kind = "Minus" -> << "Subtract" >>
      [] operator_kind = "Star" -> << "Multiply" >>
      [] operator_kind = "Slash" -> << "Divide" >>

RECURSIVE parse_precedence(_, _, _)
RECURSIVE infix_loop(_, _, _)
RECURSIVE prefix_rule(_, _, _)

compiler_handle_expression(c, source) == parse_precedence(c, source, Precedence.Assignment)

handle_grouping(c, source) ==
    Try(compiler_handle_expression(c, source), LAMBDA x :
      compiler_consume_kind(x.c, "RightParenthesis", source, "Expect ')' after expression."))

compiler_handle_unary(c, source) ==
    Bind(c.parser.previous.kind, LAMBDA operator_kind :
      Try(parse_precedence(c, source, Precedence.Unary), LAMBDA operand :
        CR(emit_byte(operand.c, Opcode(IF operator_kind = "Bang" THEN "Not" ELSE "Negate")),
           Ok(""))))

handle_binary(c, source) ==
    Bind(c.parser.previous.kind, LAMBDA operator_kind :
      Try(parse_precedence(c, source, get_rule(operator_kind).precedence + 1),
          LAMBDA operand :
            Bind(BinaryOpcodes(operator_kind), LAMBDA opcodes :
              CR(IF Len(opcodes) = 2
                 THEN emit_bytes(operand.c, Opcode(opcodes[1]), Opcode(opcodes[2]))
                 ELSE emit_byte(operand.c, Opcode(opcodes[1])),
                 Ok("")))))

prefix_rule(rule, c, source) ==
    CASE rule = "handle_grouping" -> handle_grouping(c, source)
      [] rule = "handle_unary" -> compiler_handle_unary(c, source)
      [] rule = "handle_number" -> compiler_handle_number(c, source)
      [] rule = "handle_literal" -> handle_literal(c)

\* the while loop of parse_precedence
infix_loop(c, source, precedence) ==
    IF precedence <= get_rule(c.parser.current.kind).precedence
    THEN Try(compiler_advance(c, source), LAMBDA a :
           IF get_rule(a.c.parser.previous.kind).infix = "handle_binary"
           THEN Try(handle_binary(a.c, source),
                    LAMBDA b : infix_loop(b.c, source, precedence))
           ELSE CR(a.c, Panic("Compiler: infix rule expected")))
    ELSE CR(c, Ok(""))

parse_precedence(c, source, precedence) ==
    Try(compiler_advance(c, source), LAMBDA a :
      IF get_rule(a.c.parser.previous.kind).prefix # ""
      THEN Try(prefix_rule(get_rule(a.c.parser.previous.kind).prefix, a.c, source),
               LAMBDA p : infix_loop(p.c, source, precedence))
      ELSE error(a.c, "Expect expression.", source))

\* LoxBytecodeCompiler::new: the first token is scanned into current and
\* previous; the result is [lx, r] with the compiler as r's value
LoxBytecodeCompiler_new(source, lx) ==
    Try(lexer_scan_token(source, lx), LAMBDA first_token :
      LR(first_token.lx,
         Ok([parser |-> [current |-> first_token.r.v, previous |-> first_token.r.v,
                         had_error |-> FALSE, panic_mode |-> FALSE],
             lexer |-> first_token.lx,
             chunk |-> LoxBytecodeChunk_default,
             printed |-> <<>>])))

compiler_init(c, source) ==
    Try(compiler_advance(c, source), LAMBDA a :
      Try(compiler_handle_expression(a.c, source), LAMBDA x :
        compiler_consume_kind(x.c, "EndOfFile", source, "Expect end of expression.")))

end_compilation(c) == emit_return(c)

\* the loop of compile: the tokens are scanned and printed up to EndOfFile
RECURSIVE tokens_loop(_, _)
tokens_loop(c, source) ==
    Bind(lexer_scan_token(source, c.lexer), LAMBDA token :
      IF token.r.k # "ok" THEN CR([c EXCEPT !.lexer = token.lx], token.r)
      ELSE Bind([c EXCEPT !.lexer = token.lx], LAMBDA scanned :
             Bind(get_lexeme(token.r.v, source), LAMBDA lexeme :
               IF lexeme.k # "ok" THEN CR(scanned, lexeme)
               ELSE IF token.r.v.kind = "EndOfFile" THEN CR(scanned, Ok(""))
               ELSE tokens_loop(scanned, source))))

\* LoxBytecodeCompiler::compile: had_error is set to false once init, which
\* compiles the expression, has returned
compile(c, source) ==
    Try(compiler_init(c, source), LAMBDA initialized :
      Try(tokens_loop([initialized.c EXCEPT !.parser.had_error = FALSE], source),
          LAMBDA scanned :
            Bind(end_compilation(scanned.c), LAMBDA ended :
              CR(ended, Ok(~ended.parser.had_error)))))

(***************************************************************************)
(* The bytecode virtual machine (src/bytecode/vm.rs).  The machine is      *)
(* [chunk, instruction_pointer, stack, stack_index, printed]; stack holds  *)
(* the slots that were written, the others are Nil as stack_init left      *)
(* them.  A usize is kept modulo 2^64, the values just below 2^64 written  *)
(* as negative numbers.  `checked` tells whether the build checks          *)
(* arithmetic overflow, as debug builds do and release builds do not.      *)
(***************************************************************************)
VR(v, r) == [v |-> v, r |-> r]

LOX_STACK_MAX == 256

\* LoxBytecodeVirtualMachine::default
LoxBytecodeVirtualMachine_default ==
    [chunk |-> LoxBytecodeChunk_default, instruction_pointer |-> 0,
     stack |-> << >>, stack_index |-> 0, printed |-> <<>>]

stack_get(v, index) ==
    IF index + 1 \in DOMAIN v.stack THEN v.stack[index + 1] ELSE BNil

\* self.stack.last()
stack_last(v) == stack_get(v, LOX_STACK_MAX - 1)

\* the slots up to `index`, the one at `index` being value
stack_set(stack, index, value) ==
    [j \in 1..(IF index + 1 > Len(stack) THEN index + 1 ELSE Len(stack)) |->
        IF j = index + 1 THEN value ELSE IF j <= Len(stack) THEN stack[j] ELSE BNil]

stack_push(v, value) ==
    IF v.stack_index \in 0..(LOX_STACK_MAX - 1)
    THEN VR([v EXCEPT !.stack = stack_set(@, v.stack_index, value),
                      !.stack_index = @ + 1], Ok(""))
    ELSE VR(v, Panic("index out of bounds"))

\* the value popped is r.v
stack_pop(v, checked) ==
    IF v.stack_index = 0 /\ checked THEN VR(v, Panic("attempt to subtract with overflow"))
    ELSE VR([v EXCEPT !.stack_index = @ - 1], Ok(stack_last(v)))

vm_peek(v, distance) == stack_get(v, LOX_STACK_MAX - 1 - distance)

stack_reset(v) == [v EXCEPT !.stack_index = 0]

\* instruction_pointer - get_size() - 1 is below 0 whenever an instruction
\* was dispatched: the subtraction panics where it is checked, and get_line
\* finds no line at the wrapped offset where it is not
runtime_error(v, msg, checked) ==
    Bind([v EXCEPT !.printed = Append(@, msg)], LAMBDA printed :
      Bind(v.instruction_pointer - Len(v.chunk.code) - 1, LAMBDA instruction_offset :
        IF instruction_offset < 0 /\ checked
        THEN VR(printed, Panic("attempt to subtract with overflow"))
        ELSE IF instruction_offset + 1 \notin DOMAIN v.chunk.lines
        THEN VR(printed, Panic("vm.runtime_error should be able to get the line number"))
        ELSE VR(stack_reset([printed EXCEPT !.printed =
                                Append(@, "[line "
                                          \o ToString(v.chunk.lines[instruction_offset + 1])
                                          \o "] in script")]),
                Ok(""))))

\* LoxBytecodeValue::equals
bytecode_equals(a, b) == a.t = b.t /\ a = b

bytecode_representation(value) ==
    CASE value.t = "Nil" -> "nil"
      [] value.t = "Number" ->
            ToString(value.n.whole)
            \o (IF value.n.fraction = <<>> THEN ""
                ELSE "." \o value.n.fraction[1])
      [] value.t = "Boolean" -> IF value.b THEN "true" ELSE "false"
      [] value.t = "Object" -> value.object.s

\* vm_binary_operation!: on numbers of no fraction
binary_result(name, a, b) ==
    CASE name = "Greater" -> BBoolean(a.n.whole > b.n.whole)
      [] name = "Less" -> BBoolean(a.n.whole < b.n.whole)
      [] name = "Add" -> BNumber([whole |-> a.n.whole + b.n.whole, fraction |-> <<>>])
      [] name = "Subtract" -> BNumber([whole |-> a.n.whole - b.n.whole, fraction |-> <<>>])
      [] name = "Multiply" -> BNumber([whole |-> a.n.whole * b.n.whole, fraction |-> <<>>])
      [] name = "Divide" -> BNumber([whole |-> a.n.whole \div b.n.whole, fraction |-> <<>>])

\* r is Ok("") where the match arm falls through to the next turn of the
\* loop, Ok(a LoxInterpreterResult) where it returns, and a Panic
Halt(outcome) == Ok([result |-> outcome])

vm_binary_operation(v, name, checked) ==
    IF vm_peek(v, 0).t # "Number" \/ vm_peek(v, 1).t # "Number"
    THEN Try(runtime_error(v, "Operands must be a numbers.", checked),
             LAMBDA e : VR(e.v, Halt("RuntimeError")))
    ELSE Try(stack_pop(v, checked), LAMBDA b :
           Try(stack_pop(b.v, checked), LAMBDA a :
             stack_push(a.v, binary_result(name, a.r.v, b.r.v))))

\* one turn of the loop of interpret on the instruction at
\* instruction_pointer, which no arm of the match moves
dispatch(v, checked) ==
    LET instructions == v.chunk.code
        instruction == instructions[v.instruction_pointer + 1]
    IN CASE instruction.op = "Constant" ->
              IF v.instruction_pointer + 2 \notin DOMAIN instructions
              THEN VR(v, Panic("constant opcode is followed by value"))
              ELSE IF instructions[v.instruction_pointer + 2].op # "Value"
              THEN VR(v, Panic("next opcode after constant opcode must be a value"))
              ELSE IF instructions[v.instruction_pointer + 2].value + 1
                        \notin DOMAIN v.chunk.constants
              THEN VR(v, Panic("the constant must exist"))
              ELSE stack_push(v, v.chunk.constants[
                                     instructions[v.instruction_pointer + 2].value + 1])
         [] instruction.op = "Nil" -> stack_push(v, BNil)
         [] instruction.op = "True" -> stack_push(v, BBoolean(TRUE))
         [] instruction.op = "False" -> stack_push(v, BBoolean(FALSE))
         [] instruction.op = "Equal" ->
              Try(stack_pop(v, checked), LAMBDA b :
                Try(stack_pop(b.v, checked), LAMBDA a :
                  stack_push(a.v, BBoolean(bytecode_equals(a.r.v, b.r.v)))))
         [] instruction.op \in {"Greater", "Less", "Add", "Subtract", "Multiply", "Divide"} ->
              vm_binary_operation(v, instruction.op, checked)
         [] instruction.op = "Not" ->
              Try(stack_pop(v, checked), LAMBDA a :
                stack_push(a.v, BBoolean(is_falsy(a.r.v))))
         [] instruction.op = "Negate" ->
              IF vm_peek(v, 0).t = "Number"
              THEN Try(stack_pop(v, checked), LAMBDA a :
                     stack_push(a.v, BNumber([vm_peek(v, 0).n EXCEPT !.whole = 0 - @])))
              ELSE Try(runtime_error(v, "Operand must be a number.", checked),
                       LAMBDA e : VR(e.v, Halt("RuntimeError")))
         [] instruction.op = "Return" ->
              Try(stack_pop(v, checked), LAMBDA a :
                VR([a.v EXCEPT !.printed = Append(@, bytecode_representation(a.r.v))],
                   Ok("")))
         [] OTHER -> VR(v, Panic("vm.interpret instruction not implemented"))

\* LoxBytecodeVirtualMachine::interpret.  As no turn moves
\* instruction_pointer, every turn dispatches the same instruction.  A turn
\* that leaves the machine as it was, or that pops below an empty stack where
\* overflow is not checked, is followed by the same turns for ever: Diverges
\* stands for that.  A turn that pushed is followed by turns that push the
\* same value, until stack_push finds the stack full.
Diverges == [k |-> "diverges"]

pushed_until_full(v, turn) ==
    VR([turn.v EXCEPT
           !.stack = [j \in 1..LOX_STACK_MAX |->
                         IF j <= v.stack_index THEN stack_get(v, j - 1)
                         ELSE stack_get(turn.v, v.stack_index)],
           !.stack_index = LOX_STACK_MAX],
       Panic("index out of bounds"))

RECURSIVE interpret_loop(_, _)
interpret_loop(v, checked) ==
    IF v.instruction_pointer + 1 \notin DOMAIN v.chunk.code THEN VR(v, Halt("Ok"))
    ELSE Bind(dispatch(v, checked), LAMBDA turn :
           IF turn.r.k # "ok" \/ turn.r.v # "" THEN turn
           ELSE IF turn.v = v \/ turn.v.stack_index < 0 THEN VR(turn.v, Diverges)
           ELSE IF turn.v.stack_index > v.stack_index THEN pushed_until_full(v, turn)
           ELSE interpret_loop(turn.v, checked))

vm_interpret(v, checked) == interpret_loop(v, checked)

\* LoxBytecodeVirtualMachine::run_code: the chunk of the machine is not
\* assigned from what was compiled
run_code(v, code, checked) ==
    Bind(lexer_compile(code, LoxBytecodeLexer_default), LAMBDA parsed :
      IF parsed.r.k # "ok" THEN VR(v, parsed.r)
      ELSE vm_interpret(v, checked))

(***************************************************************************)
(* The bytecode side as a state machine: a source is drawn at the start;   *)
(* a compiler is made for it and asked to compile it, or a fresh virtual   *)
(* machine is asked to run it, or to interpret the chunk it holds.         *)
(***************************************************************************)
MaxSourceLen == 3

Alphabet == {"1", "0", ".", " ", "+", "-", "(", ")", "a"}

ShortSources == UNION {[1..n -> Alphabet] : n \in 0..MaxSourceLen}

Chars(lexemes) == Concatenated([j \in DOMAIN lexemes |-> << lexemes[j] >>])

\* longer sources, that reach the rules of the operators
LongSources ==
    { << ")", "1", "+", "1", ")" >>,
      << ")", "1", "+", "1", "*", "1", "0", ")" >>,
      << ")", "-", "1", ")" >>,
      << ")", "!", "(", "1", "<", "=", "1", ")", ")" >>,
      << ")", "(", "1", ")", ")" >>,
      << ")", "(", "1", "+", ")" >>,
      << ")", "(", "1", " ", "1", ")" >>,
      << ")", "1", ".", "5", "0", "=", "=", "1", ")" >>,
      << ")", "1", "!", "=", "1", "/", "1", ">", "1", "-", "1", ")" >>,
      << ")", " ", "1", " ", "/", "/", "c", "\n", " ", ")", ")" >>,
      << ")", "\"", "s", "\"", ")" >>,
      << ")", "\"", "s" >>,
      << "1", "1", "1", "1" >>,
      << "1", "-", "1", "0", "-", "0" >>,
      << "1", "+", "1", "0", "*", "0" >>,
      << "1", "!", "=", "0" >>,
      << "1", ">", "=", "0" >>,
      << "1", "<", "=", "0" >>,
      << ")", "1", "-", "1", "0", "-", "0", ")" >>,
      << ")", "1", "+", "1", "0", "*", "0", ")" >>,
      << ")", "1", "!", "=", "0", ")" >>,
      << ")", "1", ">", "=", "0", ")" >>,
      << ")", "1", "<", "=", "0", ")" >>,
      << ")", ")", "a", "a", "a", "a", "a", "a", "a", "a", "a", "a", "a", "a", "a", "a", "a",
         "a", "a", "a", "a", "a", "a", "a", "a" >> }

BytecodeSources == ShortSources \cup LongSources

InitBytecode ==
    /\ InitInterpreter
    /\ probe = NoProbe
    /\ parser = NoParser
    /\ vm \in {[phase |-> "start", source |-> source, checked |-> checked,
                compiler |-> <<>>, returned |-> <<>>, machine |-> <<>>] :
                  source \in BytecodeSources, checked \in BOOLEAN}

\* LoxBytecodeCompiler::new(source, &mut lexer) with a fresh lexer
NewCompiler ==
    /\ vm.phase = "start"
    /\ LET made == LoxBytecodeCompiler_new(vm.source, LoxBytecodeLexer_default)
       IN vm' = [vm EXCEPT !.phase = "new",
                           !.compiler = IF made.r.k = "ok" THEN << made.r.v >> ELSE <<>>,
                           !.returned = IF made.r.k = "ok" THEN <<>> ELSE << made.r >>]
    /\ UNCHANGED <<interpreter_vars, probe, parser>>

\* compiler.compile(source, &mut chunk, &mut lexer) with the lexer the
\* compiler was made with and a fresh chunk
Compile ==
    /\ vm.phase = "new"
    /\ vm.compiler # <<>>
    /\ LET compiled == compile(vm.compiler[1], vm.source)
       IN vm' = [vm EXCEPT !.phase = "compiled",
                           !.compiler = << compiled.c >>,
                           !.returned = << compiled.r >>]
    /\ UNCHANGED <<interpreter_vars, probe, parser>>

\* LoxBytecodeVirtualMachine::default().run_code(source)
RunCode ==
    /\ vm.phase = "start"
    /\ LET ran == run_code(LoxBytecodeVirtualMachine_default, vm.source, vm.checked)
       IN vm' = [vm EXCEPT !.phase = "ran",
                           !.machine = << ran.v >>,
                           !.returned = << ran.r >>]
    /\ UNCHANGED <<interpreter_vars, probe, parser>>

\* LoxBytecodeVirtualMachine::default().interpret()
VMInterpret ==
    /\ vm.phase = "start"
    /\ LET ran == vm_interpret(LoxBytecodeVirtualMachine_default, vm.checked)
       IN vm' = [vm EXCEPT !.phase = "interpreted",
                           !.machine = << ran.v >>,
                           !.returned = << ran.r >>]
    /\ UNCHANGED <<interpreter_vars, probe, parser>>

NextBytecode == NewCompiler \/ Compile \/ RunCode \/ VMInterpret

SpecBytecode == InitBytecode /\ [][NextBytecode]_vars

\* C19: compile() returns success if and only if no error was recorded while
\* compiling the source: once it was called it has returned true where no
\* error was reported and false where one was.
C19_CompileSucceedsIffNoError ==
    vm.phase = "compiled" => vm.returned[1] = Ok(vm.compiler[1].printed = <<>>)

\* C20: running the virtual machine on a source ends with exactly one of Ok,
\* CompilationError or RuntimeError.
C20_RunEndsWithAResult ==
    vm.phase = "ran" =>
        vm.returned[1] \in {Halt("Ok"), Halt("CompilationError"), Halt("RuntimeError")}

(***************************************************************************)
(* Truthiness in the two interpreters: a value is drawn at the start, and  *)
(* the evaluator's is_truthy and the VM's is_falsy are applied to it (the  *)
(* VM to the corresponding value).  probe.truthy and probe.falsy are <<>>  *)
(* until the function has been applied, then <<its result>>.               *)
(***************************************************************************)
Strings == {"", "0", "a", "false", "nil"}

\* the values both interpreters have
CommonValues ==
    {Nil, Boolean(TRUE), Boolean(FALSE)}
        \cup {Number(n) : n \in -MaxNum..MaxNum}
        \cup {String(x) : x \in Strings}

\* the clock native is a value of the evaluator only
TruthyInputs == CommonValues \cup {Ref(1)}

InitTruthy ==
    /\ InitInterpreter
    /\ parser = NoParser
    /\ vm = NoVM
    /\ probe \in {[v |-> v, truthy |-> <<>>, falsy |-> <<>>] : v \in TruthyInputs}

ApplyIsTruthy ==
    /\ probe.truthy = <<>>
    /\ probe' = [probe EXCEPT !.truthy = <<is_truthy(probe.v)>>]
    /\ UNCHANGED <<interpreter_vars, parser, vm>>

ApplyIsFalsy ==
    /\ probe.falsy = <<>>
    /\ probe.v \in CommonValues
    /\ probe' = [probe EXCEPT !.falsy = <<is_falsy(bytecode_value(probe.v))>>]
    /\ UNCHANGED <<interpreter_vars, parser, vm>>

NextTruthy == ApplyIsTruthy \/ ApplyIsFalsy

SpecTruthy == InitTruthy /\ [][NextTruthy]_vars

(***************************************************************************)
(* Properties.  They are stated over the events the handlers logged during *)
(* the last call of interpret.                                             *)
(***************************************************************************)
\* the positions in trace of the events of kind k
Events(k) == {i \in DOMAIN trace : trace[i].ev = k}

\* a call whose callee is a function, a native function or a class
Callable(e) == e.kind \in {"Function", "NativeFunction", "Class"}

\* C1: a call of a function that is not an initializer, with as many
\* arguments as parameters, whose body ran to completion without a return,
\* yields Nil and no error.
C1_FallThroughYieldsNil ==
    \A i \in Events("call") :
        (/\ trace[i].kind = "Function"
         /\ ~trace[i].is_initializer
         /\ trace[i].arity = trace[i].nargs
         /\ trace[i].body.k = "ok")
        => trace[i].res = Ok(Nil)

\* C2: a call of a class that has an init method, with the right number of
\* arguments, runs init with `this` bound to the instance the call allocated,
\* and a call that returns a value returns that instance.
C2_InitRunsOnNewInstance ==
    \A i \in Events("call") :
        (/\ trace[i].kind = "Class"
         /\ trace[i].has_init
         /\ trace[i].arity = trace[i].nargs)
        => /\ trace[i].init_this = trace[i].instance
           /\ trace[i].res.k = "ok" => trace[i].res.v = trace[i].instance

\* C3: two reads of the same name made by the body of the same function, the
\* first of which found the name in an environment the function closed over,
\* find it in the same environment.
C3_ClosureBindingFixed ==
    \A i, j \in Events("read") :
        (/\ i < j
         /\ trace[i].fn # 0
         /\ trace[i].fn = trace[j].fn
         /\ trace[i].name = trace[j].name
         /\ trace[i].found \in Chain(envs, objs[trace[i].fn].closure))
        => trace[j].found = trace[i].found

\* C4: a Return raised in the body of a function is caught by the call that
\* runs the body: the call yields the returned value, or the bound `this` for
\* an initializer, and never a Return; any other error or panic raised in the
\* body is the call's outcome, unchanged.
C4_ReturnCaughtByCall ==
    \A i \in Events("call") :
        (trace[i].kind = "Function" /\ trace[i].arity = trace[i].nargs)
        => /\ ~IsReturn(trace[i].res)
           /\ IsReturn(trace[i].body) =>
                 trace[i].res = IF trace[i].is_initializer THEN trace[i].this_r
                                ELSE Ok(trace[i].body.e.value)
           /\ (trace[i].body.k # "ok" /\ ~IsReturn(trace[i].body)) =>
                 trace[i].res = trace[i].body

\* C4 happens: in one call of interpret, a return nested in a while, an if and
\* two blocks became the result of deep(1), a return in an initializer's loop
\* was replaced by the bound `this`, and the undefined variable read in the
\* body of bad() came out of the call unchanged.
C4_Witness ==
    /\ \E i \in Events("call") :
          /\ trace[i].kind = "Function" /\ trace[i].name = "deep"
          /\ IsReturn(trace[i].body)
          /\ trace[i].res = Ok(Number(1))
    /\ \E i \in Events("call") :
          /\ trace[i].kind = "Function" /\ trace[i].is_initializer
          /\ IsReturn(trace[i].body)
          /\ trace[i].res.k = "ok" /\ trace[i].res = trace[i].this_r
    /\ \E i \in Events("call") :
          /\ trace[i].kind = "Function" /\ trace[i].name = "bad"
          /\ trace[i].res = Err(InterpreterUndefinedVariable("nope"))
    /\ result = Err(InterpreterUndefinedVariable("nope"))
    /\ out = <<"1">>

\* C5: a call of a function, a native function or a class with a number of
\* arguments other than its arity fails with `Expected N arguments but got
\* M.`, and runs no function body.
C5_ArityMismatchFails ==
    \A i \in Events("call") :
        (Callable(trace[i]) /\ trace[i].arity # trace[i].nargs)
        => /\ trace[i].res.k = "err"
           /\ message(trace[i].res.e) =
                 "Expected " \o ToString(trace[i].arity) \o " arguments but got "
                     \o ToString(trace[i].nargs) \o "."
           /\ trace[i].bodies = 0

C7_FieldBeforeMethod ==
    \A i \in Events("get") :
        /\ trace[i].had_field => trace[i].res = Ok(trace[i].field)
        /\ (~trace[i].had_field /\ ~trace[i].had_method) =>
              /\ trace[i].res.k = "err"
              /\ message(trace[i].res.e) = "Undefined property '" \o trace[i].name \o "'."

\* C8: a property read on an instance that has no such field finds the method
\* when a class of the superclass chain of its class defines it, and fails
\* with `Undefined property 'X'.` only when none does; and a declaration
\* `class B < A` whose A is a class defines the class B.
C8_MethodLookupFollowsChain ==
    /\ \A i \in Events("get") :
          ~trace[i].had_field =>
              IF trace[i].inherited THEN trace[i].res.k = "ok"
              ELSE /\ trace[i].res.k = "err"
                   /\ message(trace[i].res.e) =
                         "Undefined property '" \o trace[i].name \o "'."
    /\ (last.kind = "source" /\ last.superclass_is_class) =>
          /\ get(envs, globals, last.source.name).k = "ok"
          /\ is_class(objs, get(envs, globals, last.source.name).v)

\* C9: == on two functions, classes or instances is true exactly when they
\* are the same object, and != is its negation.
C9_IdentityEquality ==
    \A i \in Events("equals") :
        (IsRef(trace[i].l) /\ IsRef(trace[i].r))
        => trace[i].res =
              Ok(Boolean(IF trace[i].operator = "=="
                         THEN trace[i].l.id = trace[i].r.id
                         ELSE trace[i].l.id # trace[i].r.id))

\* C10: is_truthy is false exactly on Nil and Boolean(false), is_falsy is
\* true exactly on them, and is_falsy of the corresponding VM value is the
\* negation of is_truthy.
C10_FalsyExactlyNilAndFalse ==
    /\ probe.truthy # <<>> => probe.truthy[1] = (probe.v \notin {Nil, Boolean(FALSE)})
    /\ probe.falsy # <<>> => probe.falsy[1] = (probe.v \in {Nil, Boolean(FALSE)})
    /\ (probe.truthy # <<>> /\ probe.falsy # <<>>) => probe.falsy[1] = ~probe.truthy[1]

\* C10 happens: both functions were applied to the number 0, which is truthy.
C10_Witness ==
    /\ probe.v = Number(0)
    /\ probe.truthy = <<TRUE>>
    /\ probe.falsy = <<FALSE>>

\* the position of the latest write before position i to the field that the
\* property read at position i reads, 0 when there is none
LastSet(i) ==
    LET earlier == {j \in Events("set") :
                      /\ j < i
                      /\ trace[j].instance = trace[i].instance
                      /\ trace[j].name = trace[i].name}
    IN IF earlier = {} THEN 0 ELSE CHOOSE j \in earlier : \A k \in earlier : k <= j

\* C11: a property read on an instance, through whichever binding reaches
\* it, yields the value of the latest write to that field of that instance,
\* through whichever binding the write was made.
C11_WritesSeenThroughEveryBinding ==
    \A i \in Events("get") :
        LastSet(i) # 0 => trace[i].res = Ok(trace[LastSet(i)].value)

\* the property reads that bound a method
Bindings == {i \in Events("get") : trace[i].had_method}

\* C12: a property read that finds a method appends one Function value and
\* one environment to the heaps and changes nothing else: the new function
\* has the unbound method's arity, flag and declaration and closes over the
\* new environment, which defines only `this`, as the instance read from,
\* and whose outer is the unbound method's closure; the class, the unbound
\* method and its closure are as before.  Two reads give two different
\* function values, and at the end of the run every bound method still sees
\* its own instance as `this`.
C12_BindingIsFresh ==
    /\ \A i \in Bindings :
          LET e == trace[i]
              unbound == e.objs_before[e.method.id]
          IN /\ e.res = Ok(Ref(Len(e.objs_before) + 1))
             /\ e.objs_after =
                   Append(e.objs_before,
                          [unbound EXCEPT !.closure = Len(e.envs_before) + 1])
             /\ e.envs_after =
                   Append(e.envs_before,
                          [values |-> ("this" :> Ref(e.instance)),
                           outer |-> unbound.closure])
             /\ envs[objs[e.res.v.id].closure].values["this"] = Ref(e.instance)
    /\ \A i, j \in Bindings : i # j => trace[i].res # trace[j].res

\* methods were bound for two instances and twice for one of them, and the
\* bound methods were called
C12_Witness ==
    /\ \E i, j, k \in Bindings :
          /\ i < j /\ j < k
          /\ trace[i].instance # trace[j].instance
          /\ trace[i].instance = trace[k].instance
          /\ trace[i].name = trace[k].name
    /\ out = <<"x", "y", "x", "x">>

\* C13: `a or b` with a truthy (neither nil nor false) and `a and b` with a
\* falsy yield a's value and leave b alone: nothing is printed, defined,
\* assigned or called between the end of a and the end of the expression;
\* in the other cases b is evaluated and its outcome is the outcome.
C13_ShortCircuit ==
    \A i \in Events("logical") :
        LET e == trace[i]
            truthy == e.left \notin {Nil, Boolean(FALSE)}
        IN IF (e.operator = "or") = truthy
           THEN /\ e.skipped
                /\ e.res = Ok(e.left)
                /\ e.after = e.after_left
           ELSE /\ ~e.skipped
                /\ e.res = e.right

\* both operators were evaluated both ways, with a right operand that prints
\* and assigns
C13_Witness ==
    /\ \A op \in {"or", "and"}, sk \in BOOLEAN :
          \E i \in Events("logical") : trace[i].operator = op /\ trace[i].skipped = sk
    /\ out = <<"true", "nil", "0", "0", "side", "3", "side", "nil", "2">>

\* the assignments logged between positions a and b that stored into
\* environment h under name n
AssignedBetween(a, b, h, n) ==
    \E j \in Events("assign") :
        a < j /\ j < b /\ trace[j].target = h /\ trace[j].name = n

\* C14: a block runs in an environment created for it, whose outer is the
\* environment the block statement was reached in; when the block ends,
\* with Ok, with an error or with a Return, the enclosing environment holds
\* the names it held at entry, and a name of it that the block also defined
\* has the value it had at entry unless the block assigned to the enclosing
\* binding.
C14_BlockLeavesEnclosingNames ==
    \A i \in Events("block") :
        LET e == trace[i]
        IN /\ e.fresh
           /\ e.outer = e.env
           /\ DOMAIN e.after = DOMAIN e.before
           /\ \A n \in DOMAIN e.before \cap e.block_names :
                 ~AssignedBetween(e.start, i, e.env, n) => e.after[n] = e.before[n]

\* blocks that shadowed a name of the enclosing environment ended each way:
\* normally, with a Return and with a runtime error
C14_Witness ==
    /\ \E i, j, k \in Events("block") :
          /\ trace[i].res.k = "ok" /\ "a" \in trace[i].block_names \cap DOMAIN trace[i].before
          /\ IsReturn(trace[j].res) /\ trace[j].block_names # {}
          /\ trace[k].res.k = "err" /\ ~IsReturn(trace[k].res)
          /\ "a" \in trace[k].block_names \cap DOMAIN trace[k].before
    /\ \E i \in Events("block") :
          "b" \in trace[i].block_names /\ AssignedBetween(trace[i].start, i, trace[i].env, "b")
    /\ out = <<"3", "1", "5", "7", "6", "9", "1">>

\* C15: an assignment made from environment env stores the value in the
\* nearest environment of env's chain that holds the name, changes no other
\* binding of any environment and evaluates to the value, so that reading
\* the name from env yields the value; when no environment of the chain
\* holds the name it fails with `Undefined variable 'X'.` and the
\* environments are as before.
C15_AssignUpdatesNearest ==
    \A i \in Events("assign") :
        LET e == trace[i]
        IN IF e.target # 0
           THEN /\ e.res = Ok(e.value)
                /\ e.envs_after =
                      [e.envs_before EXCEPT
                          ![e.target].values = [@ EXCEPT ![e.name] = e.value]]
                /\ get(e.envs_after, e.env, e.name) = Ok(e.value)
           ELSE /\ e.res.k = "err"
                /\ message(e.res.e) = "Undefined variable '" \o e.name \o "'."
                /\ e.envs_after = e.envs_before

\* the name was assigned in the current environment, in an outer one with
\* other bindings of the name around, and where no environment holds it;
\* the global x went from 1 to 2, 3 and 4
C15_Witness ==
    /\ \E i, j, k \in Events("assign") :
          /\ trace[i].target = trace[i].env
          /\ trace[j].target \notin {0, trace[j].env}
          /\ trace[k].target = 0
    /\ out = <<"2", "3", "4", "4", "6">>
    /\ get(envs, globals, "x") = Ok(Number(4))
    /\ get(envs, globals, "y").k = "err"

\* the operations a call of interpret with input i was given
OperationsOf(i) ==
    CASE i.kind = "interpret" -> Programs[i.program]
      [] i.kind = "source" -> interpreter_parse(i.source.tokens).r.v
      [] i.kind = "parsed" -> parser.parsed[1].r.v

\* the operations the last call evaluated, in the order it evaluated them
Evaluated == [j \in 1..Cardinality(Events("operation")) |->
                 trace[CHOOSE i \in Events("operation") :
                         Cardinality({k \in Events("operation") : k <= i}) = j]]

\* C16: a call of interpret whose list has an operation that does not
\* resolve returns the resolver's error and has evaluated nothing: nothing
\* was printed and the environments and values are as before the call.
\* Otherwise the operations were evaluated one after the other from the
\* first, only the last evaluated one may have failed, its failure is the
\* result, and without a failure the whole list was evaluated.
C16_ResolveBeforeEvaluate ==
    [][LET operations == OperationsOf(last')
           resolved == interpret_resolve(resolver, operations, 1)
           evaluated == Evaluated'
       IN IF resolved.r.k # "ok"
          THEN /\ result' = resolved.r
               /\ evaluated = <<>>
               /\ trace' = <<>>
               /\ out' = out /\ envs' = envs /\ objs' = objs
          ELSE /\ \A j \in DOMAIN evaluated :
                     /\ evaluated[j].index = j
                     /\ j < Len(evaluated) => evaluated[j].res.k = "ok"
               /\ Len(evaluated) <= Len(operations)
               /\ IF \E j \in DOMAIN evaluated : evaluated[j].res.k # "ok"
                  THEN result' = evaluated[Len(evaluated)].res
                  ELSE Len(evaluated) = Len(operations) /\ result'.k = "ok"]_vars

\* after a run that printed and stopped at a runtime error, a list whose
\* third operation does not resolve was interpreted: its first operations,
\* a print and a declaration, left no trace
C16_Witness ==
    /\ nops = 2
    /\ last.kind = "interpret" /\ Programs[last.program] = PResolveLate
    /\ result = ResolverError("ResolverDuplicateVariableDeclaration")
    /\ out = <<"2", "3", "4", "4", "6">>
    /\ get(envs, globals, "g").k = "err"
    /\ trace = <<>>

(***************************************************************************)
(* What the resolver hands to the evaluator.                               *)
(***************************************************************************)
\* the scopes of a stack that hold the name, as 0-based indices
ScopesHolding(scopes, name) ==
    {i \in 0..(Len(scopes) - 1) : name \in DOMAIN scopes[i + 1]}

Innermost(indices) == CHOOSE i \in indices : \A j \in indices : j <= i

\* C21: for every Variable, Assign or This expression the resolver has
\* visited, if the name was in the scope of index i, the innermost such
\* scope, the evaluator's map holds scopes.len() - 1 - i for the
\* expression; if the name was in no scope the map has no entry for it.
C21_DepthRecorded ==
    \A k \in DOMAIN resolver.visited :
        LET use == resolver.visited[k]
            holding == ScopesHolding(use.scopes, use.name)
        IN IF holding = {}
           THEN use.expression \notin DOMAIN locals
           ELSE /\ use.expression \in DOMAIN locals
                /\ locals[use.expression] = Len(use.scopes) - 1 - Innermost(holding)

(***************************************************************************)
(* Resolver-aided access (src/interpreter/environment.rs, 11-44), applied  *)
(* to chains of environments as LoxEnvironment::new and define build them: *)
(* environment j encloses environment j + 1, and a name defined in         *)
(* environment j holds the number j there.                                 *)
(***************************************************************************)
MaxDepth == 3

ChainNames == {"a", "b"}

\* the chain of n environments in which environment j defines defined[j]
EnvironmentChain(n, defined) ==
    [j \in 1..n |-> [values |-> [x \in defined[j] |-> Number(j)], outer |-> j - 1]]

EnvironmentChains ==
    UNION {{EnvironmentChain(n, defined) : defined \in [1..n -> SUBSET ChainNames]} :
             n \in 1..(MaxDepth + 1)}

\* a handle with a distance the chain is long enough for, as the resolver
\* computes one from the scopes around a use
InitEnvironment ==
    /\ InitInterpreter
    /\ parser = NoParser
    /\ vm = NoVM
    /\ probe \in {[es |-> es, handle |-> h, name |-> name, distance |-> distance,
                   got |-> <<>>, assigned |-> <<>>] :
                     es \in EnvironmentChains, h \in 1..(MaxDepth + 1),
                     name \in ChainNames, distance \in 0..MaxDepth}
    /\ probe.handle <= Len(probe.es)
    /\ probe.distance < probe.handle

GetAtDepth ==
    /\ probe.got = <<>>
    /\ probe' = [probe EXCEPT !.got =
                    << environment_handle_get_at_depth(probe.es, probe.handle,
                                                       probe.name, probe.distance) >>]
    /\ UNCHANGED <<interpreter_vars, parser, vm>>

AssignAtDepth ==
    /\ probe.assigned = <<>>
    /\ probe' = [probe EXCEPT !.assigned =
                    << environment_handle_assign_at_depth(probe.es, probe.handle,
                                                          probe.name, probe.distance,
                                                          Number(0)) >>]
    /\ UNCHANGED <<interpreter_vars, parser, vm>>

NextEnvironment == GetAtDepth \/ AssignAtDepth

SpecEnvironment == InitEnvironment /\ [][NextEnvironment]_vars

\* the environment `distance` outer links away from h
RECURSIVE AncestorAt(_, _, _)
AncestorAt(es, h, distance) ==
    IF distance = 0 THEN h ELSE AncestorAt(es, es[h].outer, distance - 1)

\* C22: get_at(depth, name) and assign_at(depth, name, value) walk exactly
\* depth outer links, for every depth, and read or write the map of that
\* environment only: get_at yields what that map holds for the name and
\* fails where it holds nothing, whatever a further ancestor holds, and
\* assign_at changes that map and no other environment.
C22_AtDepthIsExact ==
    LET target == AncestorAt(probe.es, probe.handle, probe.distance)
    IN /\ probe.got # <<>> =>
            IF probe.name \in DOMAIN probe.es[target].values
            THEN probe.got[1] = Ok(probe.es[target].values[probe.name])
            ELSE probe.got[1] = Err(InterpreterUndefinedVariable(probe.name))
       /\ probe.assigned # <<>> =>
            probe.assigned[1] =
                [probe.es EXCEPT ![target].values = (probe.name :> Number(0)) @@ @]

(***************************************************************************)
(* Declarations in the resolver.                                           *)
(***************************************************************************)
\* the events of the resolver's log from i on, up to the define that ends
\* the declaration made at i (all the later ones where there is none)
Window(i) ==
    LET log == resolver.log
        depth == Len(log[i].scopes)
        Ends(k) == /\ log[k].ev = "define"
                   /\ log[k].name = log[i].name
                   /\ Len(log[k].scopes) = depth
    IN {k \in DOMAIN log : k > i /\ \A j \in (i + 1)..(k - 1) : ~Ends(j)}

\* C23: a name declared in a scope is false in that scope from declare
\* until define, where it becomes true; a read of a name that is false in
\* the innermost scope fails with `Can't read local variable in its own
\* initializer.`, a declaration of a name the innermost scope already holds
\* fails with `Already a variable with this name in this scope.`, and with
\* an empty scope stack every declaration and every read resolves.
C23_DeclaredUntilDefined ==
    LET log == resolver.log
    IN \A i \in DOMAIN log :
         LET e == log[i]
             depth == Len(e.scopes)
         IN /\ e.ev = "declare" =>
                 IF depth = 0 THEN e.r = Ok(Nil)
                 ELSE IF e.name \in DOMAIN e.scopes[depth]
                 THEN /\ e.r = ResolverError("ResolverDuplicateVariableDeclaration")
                      /\ message(e.r.e) = "Already a variable with this name in this scope."
                 ELSE /\ e.r = Ok(Nil)
                      /\ \A k \in Window(i) :
                            /\ Len(log[k].scopes) >= depth
                            /\ e.name \in DOMAIN log[k].scopes[depth]
                            /\ log[k].scopes[depth][e.name] =
                                  (log[k].ev = "define" /\ log[k].name = e.name
                                     /\ Len(log[k].scopes) = depth)
            /\ e.ev = "read" =>
                 IF /\ depth # 0
                    /\ e.name \in DOMAIN e.scopes[depth]
                    /\ ~e.scopes[depth][e.name]
                 THEN /\ e.r = ResolverError("ResolverRecursiveLocalAssignment")
                      /\ message(e.r.e) = "Can't read local variable in its own initializer."
                 ELSE e.r = Ok(Nil)

\* `var a = 1; var a = a;` resolved with no scope; in a block `var c = b;`
\* was resolved with c declared and not yet defined, `var a = a;` failed,
\* and the second `var d` of a function body failed
C23_Witness ==
    LET log == resolver.log
    IN /\ \E i, j, k \in DOMAIN log :
             /\ i < j /\ j < k
             /\ log[i].ev = "declare" /\ log[j].ev = "declare" /\ log[k].ev = "read"
             /\ log[i].name = "a" /\ log[j].name = "a" /\ log[k].name = "a"
             /\ log[i].scopes = <<>> /\ log[j].scopes = <<>> /\ log[k].scopes = <<>>
             /\ log[k].r = Ok(Nil)
       /\ \E i, k, d \in DOMAIN log :
             /\ i < k /\ k < d /\ d \in Window(i)
             /\ log[i].ev = "declare" /\ log[i].name = "c" /\ log[i].scopes # <<>>
             /\ log[k].ev = "read" /\ log[k].name = "b" /\ log[k].r = Ok(Nil)
             /\ log[d].ev = "define" /\ log[d].name = "c"
       /\ \E k \in DOMAIN log :
             /\ log[k].ev = "read"
             /\ log[k].r = ResolverError("ResolverRecursiveLocalAssignment")
       /\ \E i \in DOMAIN log :
             /\ log[i].ev = "declare" /\ log[i].name = "d"
             /\ log[i].r = ResolverError("ResolverDuplicateVariableDeclaration")

\* C30: resolving leaves the resolver balanced: whenever a call of resolve
\* has returned, with Ok or with an error, the scope stack has the depth it
\* had before and current_function_kind and current_class_kind have their
\* prior values, those of a fresh resolver.
C30_ResolverBalanced ==
    Alive =>
        /\ Len(resolver.scopes) = 0
        /\ resolver.current_function_kind = "None"
        /\ resolver.current_class_kind = "None"

(***************************************************************************)
(* The code the compiler emits for binary operators.                       *)
(***************************************************************************)
\* the instructions that load the constant of index i
Load(i) == << Opcode("Constant"), Value(i) >>

\* sources of binary expressions with the code of their operands and
\* operators: 1 - 10 - 0, 1 + 10 * 0, 1 != 0, 1 >= 0, 1 <= 0
BinaryCases ==
    { [source |-> << "1", "-", "1", "0", "-", "0" >>, numbers |-> << 1, 10, 0 >>,
       code |-> Load(0) \o Load(1) \o << Opcode("Subtract") >> \o Load(2)
                  \o << Opcode("Subtract") >>],
      [source |-> << "1", "+", "1", "0", "*", "0" >>, numbers |-> << 1, 10, 0 >>,
       code |-> Load(0) \o Load(1) \o Load(2)
                  \o << Opcode("Multiply"), Opcode("Add") >>],
      [source |-> << "1", "!", "=", "0" >>, numbers |-> << 1, 0 >>,
       code |-> Load(0) \o Load(1) \o << Opcode("Equal"), Opcode("Not") >>],
      [source |-> << "1", ">", "=", "0" >>, numbers |-> << 1, 0 >>,
       code |-> Load(0) \o Load(1) \o << Opcode("Less"), Opcode("Not") >>],
      [source |-> << "1", "<", "=", "0" >>, numbers |-> << 1, 0 >>,
       code |-> Load(0) \o Load(1) \o << Opcode("Greater"), Opcode("Not") >>] }

\* the chunk holds the code and the numbers of a case
Emitted(chunk, case, ending) ==
    /\ chunk.code = case.code \o ending
    /\ Len(chunk.constants) = Len(case.numbers)
    /\ \A i \in DOMAIN case.numbers :
          chunk.constants[i] = BNumber([whole |-> case.numbers[i], fraction |-> <<>>])

\* C24: the code of both operands comes before the opcode of the operator,
\* binary operators associate to the left, and * binds tighter than + and -:
\* a - b - c compiles to a b Subtract c Subtract, a + b * c to
\* a b c Multiply Add, !=, >= and <= to (Equal, Not), (Less, Not) and
\* (Greater, Not), each followed by one Return.
C24_OperandsBeforeOperator ==
    vm.phase = "compiled" =>
        \A case \in BinaryCases :
            vm.source = case.source =>
                /\ vm.returned[1] = Ok(TRUE)
                /\ Emitted(vm.compiler[1].chunk, case, << Opcode("Return") >>)

\* The same expressions between a token for new() to consume and a closing
\* parenthesis: when compile stops, the chunk holds the code of the case without
\* a Return.
C24_BetweenParentheses ==
    vm.phase = "compiled" =>
        \A case \in BinaryCases :
            vm.source = << ")" >> \o case.source \o << ")" >> =>
                /\ vm.returned[1].k = "panic"
                /\ Emitted(vm.compiler[1].chunk, case, <<>>)

(***************************************************************************)
(* The constants of a chunk.  The calls the compiler makes for a sum       *)
(* `)1+1+...+1`: emit_constant for each number (handle_number) and         *)
(* emit_byte(Add) after each number but the first (handle_binary), from a  *)
(* compiler that has reported no error, or one error and is in panic mode. *)
(***************************************************************************)
MaxConstants == 257

SumSource == << ")", "1", "+", "1" >>

\* the compiler with the token of a number as its previous token
Compiling(panicking) ==
    LET made == LoxBytecodeCompiler_new(SumSource, LoxBytecodeLexer_default).r.v
        at == [made EXCEPT !.parser.previous = BytecodeToken("Number", 1, 1, 0, "")]
    IN IF panicking THEN error(at, "Expect expression.", SumSource).c ELSE at

InitConstants ==
    /\ InitInterpreter
    /\ probe = NoProbe
    /\ parser = NoParser
    /\ vm \in {[phase |-> "emitting", source |-> SumSource,
                compiler |-> << Compiling(panicking) >>] : panicking \in BOOLEAN}

\* the last instruction of the chunk being compiled ends an operand
OperandEmitted ==
    LET code == vm.compiler[1].chunk.code
    IN code # <<>> /\ code[Len(code)].op = "Value"

EmitOperand ==
    /\ vm.phase = "emitting"
    /\ Len(vm.compiler[1].chunk.constants) < MaxConstants
    /\ Len(vm.compiler[1].chunk.constants) >= 2 => ~OperandEmitted
    /\ vm' = [vm EXCEPT !.compiler =
                << emit_constant(vm.compiler[1], vm.source,
                                 BNumber([whole |-> 1, fraction |-> <<>>])).c >>]
    /\ UNCHANGED <<interpreter_vars, probe, parser>>

EmitOperator ==
    /\ vm.phase = "emitting"
    /\ Len(vm.compiler[1].chunk.constants) >= 2
    /\ OperandEmitted
    /\ vm' = [vm EXCEPT !.compiler = << emit_byte(vm.compiler[1], Opcode("Add")) >>]
    /\ UNCHANGED <<interpreter_vars, probe, parser>>

NextConstants == EmitOperand \/ EmitOperator

SpecConstants == InitConstants /\ [][NextConstants]_vars

\* the chunk of the compiler, where there is one
Compiled == IF vm.phase \in {"new", "compiled", "emitting"} /\ vm.compiler # <<>>
            THEN << vm.compiler[1].chunk >> ELSE <<>>

\* A chunk of the compiler has as many lines as instructions, each Constant
\* is followed by a Value that is at most 255 and an index of the pool, and
\* a Value only follows a Constant.
C27_ChunkWellFormed ==
    \A j \in DOMAIN Compiled :
        LET chunk == Compiled[j]
            code == chunk.code
        IN /\ Len(code) = Len(chunk.lines)
           /\ \A i \in DOMAIN code :
                 /\ code[i].op = "Constant" =>
                       /\ i < Len(code)
                       /\ code[i + 1].op = "Value"
                       /\ code[i + 1].value <= 255
                       /\ code[i + 1].value < Len(chunk.constants)
                 /\ code[i].op = "Value" => i > 1 /\ code[i - 1].op = "Constant"

\* C27: in every chunk the compiler produces the opcode and line arrays have
\* the same length, each Constant is immediately followed by a Value(i) with
\* i <= 255 and i an index of the constant pool, Value appears nowhere else,
\* and once a constant was added whose index exceeds 255 the compile error
\* `Too many constants in one chunk.` has been reported.
C27_ConstantsWithinAByte ==
    /\ C27_ChunkWellFormed
    /\ \A j \in DOMAIN Compiled :
          Len(Compiled[j].constants) > u8_MAX + 1 =>
              \E k \in DOMAIN vm.compiler[1].printed :
                  vm.compiler[1].printed[k].message = "Too many constants in one chunk."

(***************************************************************************)
(* The bytecode lexer on its own: scan_token called again and again on a   *)
(* source with one lexer, as LoxBytecodeLexer::compile and the compiler do.*)
(***************************************************************************)
\* sources that end with a keyword, with whitespace, inside a comment
KeywordSources ==
    { << "t", "r", "u", "e" >>, << "f", "a", "l", "s", "e" >>, << "n", "i", "l" >>,
      << "1", " ", "\n" >>, << "1", "/", "/", "c" >>, << "/", "/" >>,
      << "1", "+", "n", "i", "l", " " >> }

LexerSources == ShortSources \cup KeywordSources

InitLexer ==
    /\ InitInterpreter
    /\ probe = NoProbe
    /\ parser = NoParser
    /\ vm \in {[phase |-> "lexing", source |-> source, lexer |-> LoxBytecodeLexer_default,
                tokens |-> <<>>, returned |-> <<>>] : source \in LexerSources}

\* one more call of scan_token, after a call that returned a token other
\* than EndOfFile
ScanToken ==
    /\ vm.phase = "lexing"
    /\ vm.returned # <<>> =>
          vm.returned[1].k = "ok" /\ vm.returned[1].v.kind # "EndOfFile"
    /\ LET token == lexer_scan_token(vm.source, vm.lexer)
       IN vm' = [vm EXCEPT !.lexer = token.lx,
                           !.tokens = IF token.r.k = "ok" THEN Append(@, token.r.v) ELSE @,
                           !.returned = << token.r >>]
    /\ UNCHANGED <<interpreter_vars, probe, parser>>

NextLexer == ScanToken

SpecLexer == InitLexer /\ [][NextLexer]_vars

\* the kinds of the keywords a source may hold
KeywordKinds ==
    (<< "t", "r", "u", "e" >> :> "True") @@ (<< "f", "a", "l", "s", "e" >> :> "False")
      @@ (<< "n", "i", "l" >> :> "Nil")

\* the text a token was built over, within the source
LexemeOf(source, token) ==
    SubSeq(source, token.start + 1,
           IF token.start + token.length <= Len(source)
           THEN token.start + token.length ELSE Len(source))

\* C28: the calls of scan_token over a source never panic and return
\* finitely many tokens, of which only the last is EndOfFile, returned once
\* all the characters are consumed, be the source empty or ended by
\* whitespace, by a comment or by a token; and a token whose lexeme is
\* true, false or nil has the kind of that keyword.
C28_ScanEndsWithEndOfFile ==
    vm.phase = "lexing" =>
        /\ \A j \in DOMAIN vm.returned : vm.returned[j].k = "ok"
        /\ Len(vm.tokens) <= Len(vm.source) + 1
        /\ \A i \in DOMAIN vm.tokens :
              /\ vm.tokens[i].kind = "EndOfFile" =>
                    i = Len(vm.tokens) /\ vm.lexer.current = Len(vm.source)
              /\ LexemeOf(vm.source, vm.tokens[i]) \in DOMAIN KeywordKinds =>
                    vm.tokens[i].kind = KeywordKinds[LexemeOf(vm.source, vm.tokens[i])]
        /\ vm.lexer.current = Len(vm.source) /\ vm.returned # <<>> =>
              vm.tokens # <<>> /\ vm.tokens[Len(vm.tokens)].kind = "EndOfFile"

(***************************************************************************)
(* The virtual machine on a chunk.  run_code leaves the machine with the   *)
(* empty chunk, so the stack operations and the arms of interpret are      *)
(* applied here to a machine that holds a chunk: stack_push, stack_pop and *)
(* peek as interpret calls them, one turn of the loop of interpret, and    *)
(* interpret as a whole.  held is history: the values a last-in first-out  *)
(* stack holds after the same pushes and pops.                             *)
(***************************************************************************)
MaxSteps == 4

MachineValues ==
    { BNumber([whole |-> 6, fraction |-> <<>>]), BNumber([whole |-> 2, fraction |-> <<>>]),
      BObject(BString("s")), BObject(BString("t")) }

BinaryOperations == {"Greater", "Less", "Add", "Subtract", "Multiply", "Divide"}

\* a chunk of one operator on line 1, and the chunk of the expression `6`
MachineChunks ==
    { [code |-> << Opcode(name) >>, lines |-> << 1 >>, constants |-> <<>>] :
        name \in BinaryOperations }
    \cup { [code |-> << Opcode("Constant"), Value(0), Opcode("Return") >>,
            lines |-> << 1, 1, 1 >>,
            constants |-> << BNumber([whole |-> 6, fraction |-> <<>>]) >>] }

InitMachine ==
    /\ InitInterpreter
    /\ probe = NoProbe
    /\ parser = NoParser
    /\ vm \in {[phase |-> "machine", checked |-> checked,
                machine |-> [LoxBytecodeVirtualMachine_default EXCEPT !.chunk = chunk],
                held |-> <<>>, call |-> [op |-> "new"], returned |-> <<>>, steps |-> 0] :
                  chunk \in MachineChunks, checked \in BOOLEAN}

\* the machine can be called: it was made, or the last call returned
Callable_machine ==
    /\ vm.phase = "machine"
    /\ vm.steps < MaxSteps
    /\ vm.call.op \in {"new", "push", "pop", "peek"}
    /\ \A j \in DOMAIN vm.returned : vm.returned[j].k = "ok"

Called(invoked, machine, held, returned) ==
    vm' = [vm EXCEPT !.machine = machine, !.held = held, !.call = invoked,
                     !.returned = << returned >>, !.steps = @ + 1]

StackPush ==
    /\ Callable_machine
    /\ \E value \in MachineValues :
          LET pushed == stack_push(vm.machine, value)
          IN Called([op |-> "push", value |-> value, held |-> vm.held],
                    pushed.v, Append(vm.held, value), pushed.r)
    /\ UNCHANGED <<interpreter_vars, probe, parser>>

\* stack_pop of a stack that holds a value
StackPop ==
    /\ Callable_machine
    /\ vm.held # <<>>
    /\ LET popped == stack_pop(vm.machine, vm.checked)
       IN Called([op |-> "pop", held |-> vm.held], popped.v,
                 SubSeq(vm.held, 1, Len(vm.held) - 1), popped.r)
    /\ UNCHANGED <<interpreter_vars, probe, parser>>

Peek ==
    /\ Callable_machine
    /\ \E distance \in 0..1 :
          Called([op |-> "peek", distance |-> distance, held |-> vm.held],
                 vm.machine, vm.held, Ok(vm_peek(vm.machine, distance)))
    /\ UNCHANGED <<interpreter_vars, probe, parser>>

\* one turn of the loop of interpret
Turn ==
    /\ Callable_machine
    /\ vm.machine.instruction_pointer + 1 \in DOMAIN vm.machine.chunk.code
    /\ LET turn == dispatch(vm.machine, vm.checked)
       IN Called([op |-> "turn", held |-> vm.held,
                  instruction |-> vm.machine.chunk.code[vm.machine.instruction_pointer + 1]],
                 turn.v, vm.held, turn.r)
    /\ UNCHANGED <<interpreter_vars, probe, parser>>

\* interpret() of a machine nothing was pushed on
MachineInterpret ==
    /\ Callable_machine
    /\ vm.call.op = "new"
    /\ LET ran == vm_interpret(vm.machine, vm.checked)
       IN Called([op |-> "interpret", held |-> vm.held], ran.v, vm.held, ran.r)
    /\ UNCHANGED <<interpreter_vars, probe, parser>>

NextMachine == StackPush \/ StackPop \/ Peek \/ Turn \/ MachineInterpret

SpecMachine == InitMachine /\ [][NextMachine]_vars

\* the slots of the machine's stack below stack_index
StackOf(machine) == [j \in 1..machine.stack_index |-> stack_get(machine, j - 1)]

IsString(value) == value.t = "Object" /\ value.object.o = "String"

====
